---- MODULE Spec2Model ----
(***************************************************************************)
(* Model of the compliance reporting pipeline of stvha-ccr-form-react:     *)
(* generateComplianceReport, formatReportAsHTML, formatReportAsText        *)
(* (src/src/utils/reportGenerator.js), generateViolationLettersDocument,   *)
(* the photo probes and downloadViolationsDocument                         *)
(* (src/src/components/AdminViewer.jsx); and of the application around it: *)
(* the routes (src/src/App.js), sign-in (src/src/components/Login.jsx) and *)
(* the compliance form: photo selection and previews, handleSubmit step by *)
(* step with its progress and success indicators, and the address          *)
(* autocompletion (src/src/hooks/useGoogleAutocomplete.js); and of the     *)
(* admin viewer: loading, filters, review modal and image lightbox.  Of    *)
(* the form data only the required fields are kept.                        *)
(*                                                                         *)
(* JavaScript values are represented as follows.  An object is a function  *)
(* from property names to values; a property that is missing is a name     *)
(* outside the DOMAIN.  Strings that the code only compares as a whole     *)
(* (tokens, dates, names) are TLA+ strings; the address, which the code    *)
(* collates character by character, is a sequence of one-character         *)
(* strings.  The value undefined is UNDEFINED where a string is expected   *)
(* and UNDEFINED_SEQ where a sequence is expected.  A call that throws     *)
(* yields a completion record of kind "threw".                             *)
(***************************************************************************)
EXTENDS Integers, Sequences, FiniteSets, TLC

VARIABLES
  allReviews,   \* the records loaded from the store (AdminViewer state)
  reportData,   \* completion of generateComplianceReport(allReviews)
  html,         \* completion of formatReportAsHTML(reportData)
  text,         \* completion of formatReportAsText(reportData)
  doc,          \* completion of generateViolationLettersDocument(reportData)
  now,          \* the wall clock read by new Date()
  previous,     \* the completion of the same call made once before
  currentUser,  \* useAuth().currentUser
  location,     \* the path the router is at
  view,         \* the component the router has mounted
  loginError,   \* Login: error
  selectedFiles,  \* ComplianceForm: selectedFiles
  imagePreviews,  \* ComplianceForm: imagePreviews
  pendingReads,   \* ComplianceForm: files whose FileReader has not fired onload
  formError,      \* ComplianceForm: error
  errorTimer,     \* ComplianceForm: a setTimeout(() => setError('')) is pending
  submission,     \* ComplianceForm: the handleSubmit call in flight
  store,          \* the complianceReviews collection
  dimensions,   \* getImageDimensions(url): how the image loaded, how the promise settled
  buffer,       \* fetchImageAsBuffer(url): how the image loaded, how the promise settled
  download,     \* the downloadViolationsDocument call: position, attempts, settlement
  heap,         \* the image arrays of the loaded records, by object identity
  inputs,       \* the record list each concurrent report generation was given
  calls,        \* the concurrent report generations: position, groups, document
  filters,          \* AdminViewer: filters
  filteredReviews,  \* AdminViewer: filteredReviews
  loading,          \* AdminViewer: loading
  filterEffect,     \* AdminViewer: the applyFilters effect is due (a dependency changed)
  selectedReview,   \* AdminViewer: selectedReview
  showModal,        \* AdminViewer: showModal
  lightboxImages,   \* AdminViewer: lightboxImages
  lightboxIndex,    \* AdminViewer: lightboxIndex
  showLightbox,     \* AdminViewer: showLightbox
  keyHandler,       \* AdminViewer: what the registered keydown handler closes over
  formData,        \* ComplianceForm: formData (the required fields)
  uploading,       \* ComplianceForm: uploading
  uploadProgress,  \* ComplianceForm: uploadProgress, in whole percent
  success,         \* ComplianceForm: success
  submitting,      \* ComplianceForm: submitting
  hideTimers,      \* ComplianceForm: pending setTimeout(() => setSuccess(false))
  outbox,          \* the notification emails EmailJS has accepted
  configured,      \* EMAILJS_PUBLIC_KEY is set in the build
  submitCall,      \* handleSubmit step by step: position, captured state, URLs
  email,         \* Login: email
  password,      \* Login: password
  loginLoading,  \* Login: loading
  signIns,       \* the signIn calls made: arguments, settlement, navigate called
  hookRender,       \* useGoogleAutocomplete: the render whose onPlaceSelected is current
  mapsLoaded,       \* window.google.maps.places is there
  instances,        \* the Autocomplete instances created: listener live, its callback
  autocompleteRef,  \* autocompleteRef.current: null or an instance
  effectCleanup,    \* what the cleanup of the last effect run does
  polling,          \* the setInterval of the last effect run is active
  pollTimeout,      \* its setTimeout(clearInterval, 10000) is pending
  invoked           \* the onPlaceSelected callbacks the last place selection invoked

reportVars == <<allReviews, reportData, html, text, doc, now, previous>>

routeVars == <<currentUser, location, view, loginError>>

formVars ==
  <<selectedFiles, imagePreviews, pendingReads, formError, errorTimer, submission, store>>

appVars == <<routeVars, formVars>>

downloadVars == <<dimensions, buffer, download>>

callVars == <<heap, inputs, calls>>

filterVars == <<filters, filteredReviews, loading, filterEffect>>

lightboxVars ==
  <<selectedReview, showModal, lightboxImages, lightboxIndex, showLightbox, keyHandler>>

adminVars == <<filterVars, lightboxVars>>

submitVars ==
  <<formData, uploading, uploadProgress, success, submitting, hideTimers, outbox,
    configured, submitCall>>

loginVars == <<email, password, loginLoading, signIns>>

hookVars ==
  <<hookRender, mapsLoaded, instances, autocompleteRef, effectCleanup, polling,
    pollTimeout, invoked>>

extraVars == <<adminVars, submitVars, loginVars, hookVars>>

\* the state outside the admin viewer and the report
nonAdminVars == <<appVars, downloadVars, callVars, submitVars, loginVars, hookVars>>

\* the state outside the form
nonFormVars == <<reportVars, downloadVars, callVars, adminVars, loginVars, hookVars>>

nonReportVars == <<appVars, downloadVars, callVars, extraVars>>

nonAppVars == <<reportVars, downloadVars, callVars, extraVars>>

nonDownloadVars == <<reportVars, appVars, callVars, extraVars>>

nonCallVars == <<reportVars, appVars, downloadVars, extraVars>>

vars == <<reportVars, appVars, downloadVars, callVars, extraVars>>

\* ------------------------------------------------------------------------
\* JavaScript values

UNDEFINED == "<undefined>"

UNDEFINED_SEQ == <<UNDEFINED>>

\* review[key], undefined when the property is missing (string-valued)
Get(obj, key) == IF key \in DOMAIN obj THEN obj[key] ELSE UNDEFINED

\* review[key], undefined when the property is missing (array/char-sequence valued)
GetSeq(obj, key) == IF key \in DOMAIN obj THEN obj[key] ELSE UNDEFINED_SEQ

\* truthiness of a string value: undefined and '' are falsy
Truthy(v) == v # UNDEFINED /\ v # ""

\* truthiness of a character sequence (a string): undefined and '' are falsy
TruthyStr(s) == s # UNDEFINED_SEQ /\ s # <<>>

\* truthiness of an array: only undefined is falsy, [] is truthy
TruthyArr(a) == a # UNDEFINED_SEQ

Returned(v) == [kind |-> "returned", value |-> v]

Threw(e) == [kind |-> "threw", error |-> e]

NotCalled == [kind |-> "none"]

\* ------------------------------------------------------------------------
\* Characters: collation (String.prototype.localeCompare, root collation)
\* and UTF-16 code-unit order

Digits == <<"0", "1", "2", "3", "4", "5", "6", "7", "8", "9">>

Lowers == <<"a", "b", "c", "d", "e", "f", "g", "h", "i", "j", "k", "l", "m",
            "n", "o", "p", "q", "r", "s", "t", "u", "v", "w", "x", "y", "z">>

Uppers == <<"A", "B", "C", "D", "E", "F", "G", "H", "I", "J", "K", "L", "M",
            "N", "O", "P", "Q", "R", "S", "T", "U", "V", "W", "X", "Y", "Z">>

Range(s) == {s[i] : i \in DOMAIN s}

Chars == {" "} \cup Range(Digits) \cup Range(Lowers) \cup Range(Uppers)

IndexOf(s, c) == CHOOSE i \in DOMAIN s : s[i] = c

IsUpper == [c \in Chars |-> c \in Range(Uppers)]

\* String.prototype.toLowerCase, per character
toLowerCaseChar == [c \in Chars |-> IF IsUpper[c] THEN Lowers[IndexOf(Uppers, c)] ELSE c]

toLowerCase(s) == [i \in DOMAIN s |-> toLowerCaseChar[s[i]]]

\* primary collation order: space, then digits, then letters without regard to case
CollationOrder == <<" ">> \o Digits \o Lowers

PrimaryWeight == [c \in Chars |-> IndexOf(CollationOrder, toLowerCaseChar[c])]

\* tertiary collation weight: a lower-case letter sorts before its upper-case form
TertiaryWeight == [c \in Chars |-> IF IsUpper[c] THEN 1 ELSE 0]

\* UTF-16 code-unit order: space < digits < upper-case < lower-case
CodeUnitOrder == <<" ">> \o Digits \o Uppers \o Lowers

CodeUnit == [c \in Chars |-> IndexOf(CodeUnitOrder, c)]

\* lexicographic comparison of two sequences of numbers: -1, 0 or 1
RECURSIVE CompareFrom(_, _, _)
CompareFrom(ws, wt, i) ==
  IF i > Len(ws) /\ i > Len(wt) THEN 0
  ELSE IF i > Len(ws) THEN -1
  ELSE IF i > Len(wt) THEN 1
  ELSE IF ws[i] < wt[i] THEN -1
  ELSE IF ws[i] > wt[i] THEN 1
  ELSE CompareFrom(ws, wt, i + 1)

Weights(w, s) == [i \in DOMAIN s |-> w[s[i]]]

\* a comparison by code units, as s < t ? -1 : s > t ? 1 : 0 would do
localeCompareByCodeUnit(s, t) == CompareFrom(Weights(CodeUnit, s), Weights(CodeUnit, t), 1)

\* s.localeCompare(t): all primary weights first, then case as the tie-break
localeCompare(s, t) ==
  LET p == CompareFrom(Weights(PrimaryWeight, s), Weights(PrimaryWeight, t), 1)
  IN  IF p # 0 THEN p
      ELSE CompareFrom(Weights(TertiaryWeight, s), Weights(TertiaryWeight, t), 1)

\* ------------------------------------------------------------------------
\* reportGenerator.js

INSPECTION_ITEMS == <<
  [key |-> "overallAppearance", label |-> "Overall Appearance"],
  [key |-> "paintStucco", label |-> "Paint/Stucco"],
  [key |-> "tileRoof", label |-> "Tile Roof"],
  [key |-> "gutters", label |-> "Gutters"],
  [key |-> "windows", label |-> "Windows"],
  [key |-> "doors", label |-> "Doors"],
  [key |-> "fencing", label |-> "Fencing"],
  [key |-> "driveway", label |-> "Driveway"],
  [key |-> "walkways", label |-> "Walkways"],
  [key |-> "landscapeOverall", label |-> "Landscape Overall"],
  [key |-> "groundCover", label |-> "Ground Cover"],
  [key |-> "treesShrubs", label |-> "Trees & Shrubs"],
  [key |-> "deadPlants", label |-> "Dead Plants"],
  [key |-> "mistletoe", label |-> "Mistletoe"],
  [key |-> "rocksGravel", label |-> "Rocks/Gravel"],
  [key |-> "mailbox", label |-> "Mailbox"],
  [key |-> "lamppost", label |-> "Lamppost"],
  [key |-> "houseNumbers", label |-> "House Numbers"],
  [key |-> "exteriorLighting", label |-> "Exterior Lighting"],
  [key |-> "trashDebris", label |-> "Trash/Debris"],
  [key |-> "trashCans", label |-> "Trash Cans"],
  [key |-> "unauthorizedStructures", label |-> "Unauthorized Structures"],
  [key |-> "inoperableVehicles", label |-> "Inoperable Vehicles"],
  [key |-> "commercialVehicles", label |-> "Commercial Vehicles"],
  [key |-> "approvedParking", label |-> "Approved Parking"] >>

\* 'Address not provided'
AddressNotProvided ==
  <<"A", "d", "d", "r", "e", "s", "s", " ", "n", "o", "t", " ",
    "p", "r", "o", "v", "i", "d", "e", "d">>

\* the test of line 47: value && value !== 'accept' && value !== 'na',
\* with every non-empty value passing as a violation
IsViolationAnyNonEmpty(value) == Truthy(value)

\* the test of line 47 as a check against the two violation tokens
IsViolationKnownOnly(value) == value \in {"minor", "major"}

\* the test of line 47: value && value !== 'accept' && value !== 'na'
IsViolation(value) == Truthy(value) /\ value # "accept" /\ value # "na"

\* line 51 with the two labels exchanged
SeverityOfSwapped(value) == IF value = "major" THEN "Minor" ELSE "Major"

\* line 51: value === 'major' ? 'Major' : 'Minor'
SeverityOf(value) == IF value = "major" THEN "Major" ELSE "Minor"

\* lines 41-54: the entries pushed to nonCompliantItems, in INSPECTION_ITEMS order
RECURSIVE NonCompliantFrom(_, _)
NonCompliantFrom(review, i) ==
  IF i > Len(INSPECTION_ITEMS) THEN <<>>
  ELSE LET item == INSPECTION_ITEMS[i]
           value == Get(review, item.key)
       IN  IF IsViolation(value)
           THEN <<[item |-> item.label, status |-> value, severity |-> SeverityOf(value)]>>
                \o NonCompliantFrom(review, i + 1)
           ELSE NonCompliantFrom(review, i + 1)

NonCompliantItems(review) == NonCompliantFrom(review, 1)

\* x || fallback for a string-valued property
OrElse(review, key, fallback) ==
  IF Truthy(Get(review, key)) THEN review[key] ELSE fallback

\* line 59 without the fallback: address: review.propertyAddress
AddressOfNoFallback(review) == GetSeq(review, "propertyAddress")

\* line 59: review.propertyAddress || 'Address not provided'
AddressOf(review) ==
  IF TruthyStr(GetSeq(review, "propertyAddress")) THEN review.propertyAddress
  ELSE AddressNotProvided

\* line 61 with the operands exchanged: review.submittedAt || review.date
ReviewDateOfSwapped(review) == OrElse(review, "submittedAt", Get(review, "date"))

\* line 61: review.date || review.submittedAt
ReviewDateOf(review) == OrElse(review, "date", Get(review, "submittedAt"))

\* line 65 without the fallback: images: review.images
ImagesOfNoFallback(review) == GetSeq(review, "images")

\* line 65: review.images || []
ImagesOf(review) ==
  IF TruthyArr(GetSeq(review, "images")) THEN review.images ELSE <<>>

\* line 66: review.imageCount || 0
ImageCountOf(review) ==
  IF "imageCount" \in DOMAIN review THEN review.imageCount ELSE 0

\* lines 58-72: the object pushed to reportData
Group(review, items) ==
  [address |-> AddressOf(review),
   reviewTeam |-> OrElse(review, "reviewTeam", "Unknown"),
   reviewDate |-> ReviewDateOf(review),
   submittedBy |-> OrElse(review, "submittedBy", "Unknown"),
   complianceStatus |-> OrElse(review, "complianceStatus", "Not specified"),
   nonCompliantItems |-> items,
   images |-> ImagesOf(review),
   imageCount |-> ImageCountOf(review),
   comments |-> OrElse(review, "detailedComments", ""),
   violationNotice |-> (Get(review, "violationNotice") = "yes"),
   violationNoticeDate |-> OrElse(review, "violationNoticeDate", ""),
   complianceDeadline |-> OrElse(review, "complianceDeadline", ""),
   reinspectionDate |-> OrElse(review, "reinspectionDate", "")]

\* lines 38-74: reportData before the sort
RECURSIVE CollectFrom(_, _)
CollectFrom(reviews, i) ==
  IF i > Len(reviews) THEN <<>>
  ELSE LET items == NonCompliantItems(reviews[i])
       IN  IF Len(items) > 0
           THEN <<Group(reviews[i], items)>> \o CollectFrom(reviews, i + 1)
           ELSE CollectFrom(reviews, i + 1)

Collect(reviews) == CollectFrom(reviews, 1)

\* the comparator of line 77
CompareGroups(a, b) == localeCompare(a.address, b.address)

\* an insertion that puts g before the elements that compare equal to it
InsertBeforeEqual(sorted, g) ==
  LET p == Cardinality({i \in DOMAIN sorted : CompareGroups(sorted[i], g) < 0})
  IN  SubSeq(sorted, 1, p) \o <<g>> \o SubSeq(sorted, p + 1, Len(sorted))

\* one step of a stable sort: g goes after every element that is not greater
Insert(sorted, g) ==
  LET p == Cardinality({i \in DOMAIN sorted : CompareGroups(sorted[i], g) <= 0})
  IN  SubSeq(sorted, 1, p) \o <<g>> \o SubSeq(sorted, p + 1, Len(sorted))

\* Array.prototype.sort with the comparator of line 77 (stable since ES2019)
RECURSIVE SortFrom(_, _, _)
SortFrom(groups, i, sorted) ==
  IF i > Len(groups) THEN sorted
  ELSE SortFrom(groups, i + 1, Insert(sorted, groups[i]))

SortByAddress(groups) == SortFrom(groups, 1, <<>>)

\* a.address.localeCompare throws a TypeError when a.address is undefined;
\* the comparator runs only when there are two elements to compare
SortThrows(groups) ==
  Len(groups) >= 2 /\ \E i \in DOMAIN groups : groups[i].address = UNDEFINED_SEQ

\* lines 37-80
generateComplianceReport(reviews) ==
  LET groups == Collect(reviews)
  IN  IF SortThrows(groups) THEN Threw("TypeError")
      ELSE Returned(SortByAddress(groups))

\* ------------------------------------------------------------------------
\* Helpers shared by the renderers

\* new Date(v).toLocaleDateString() in en-US, for the date strings of the model;
\* undefined, '' and anything unparsable give 'Invalid Date'
toLocaleDateString(v) ==
  CASE v = "2024-01-15" -> "1/15/2024"
    [] v = "2024-02-01T10:00:00.000Z" -> "2/1/2024"
    [] v = "2024-03-10" -> "3/10/2024"
    [] OTHER -> "Invalid Date"

\* formatStatus: 'Not specified' for a falsy status, otherwise the words between
\* '-' capitalised and joined by ' '
formatStatus(status) ==
  IF ~Truthy(status) THEN "Not specified"
  ELSE CASE status = "resolved" -> "Resolved"
         [] status = "in-progress" -> "In Progress"
         [] status = "further-action" -> "Further Action"
         [] status = "Not specified" -> "Not specified"
         [] OTHER -> status

\* getStatusColor
getStatusColor(status) ==
  CASE status = "resolved" -> "#48bb78"
    [] status = "in-progress" -> "#ed8936"
    [] status = "further-action" -> "#f56565"
    [] OTHER -> "#718096"

\* an optional fragment `cond ? x : ''` is a sequence of length 0 or 1
Optional(cond, x) == IF cond THEN <<x>> ELSE <<>>

\* nonCompliantItems.filter(item => item.status === 'major')
MajorItems(property) == SelectSeq(property.nonCompliantItems, LAMBDA it : it.status = "major")

\* nonCompliantItems.filter(item => item.status === 'minor')
MinorItems(property) == SelectSeq(property.nonCompliantItems, LAMBDA it : it.status = "minor")

Labels(items) == [i \in DOMAIN items |-> items[i].item]

\* reportData.reduce((sum, p) => sum + p.nonCompliantItems.length, 0)
RECURSIVE SumViolations(_, _)
SumViolations(data, i) ==
  IF i > Len(data) THEN 0
  ELSE Len(data[i].nonCompliantItems) + SumViolations(data, i + 1)

\* reportData.filter(p => p.nonCompliantItems.some(i => i.status === 'major')).length
CountMajor(data) ==
  Len(SelectSeq(data, LAMBDA p : \E i \in DOMAIN p.nonCompliantItems :
                                    p.nonCompliantItems[i].status = "major"))

\* reportData.filter(p => p.imageCount > 0).length
CountPhotos(data) == Len(SelectSeq(data, LAMBDA p : p.imageCount > 0))

\* reportData.filter(p => p.violationNotice).length
CountNotices(data) == Len(SelectSeq(data, LAMBDA p : p.violationNotice))

\* the follow-up block shown as soon as one of its dates is set
FollowUpIfAnyDate(property) ==
  Optional(property.violationNotice \/ Truthy(property.violationNoticeDate)
             \/ Truthy(property.complianceDeadline) \/ Truthy(property.reinspectionDate),
    [date |-> Optional(Truthy(property.violationNoticeDate),
                       toLocaleDateString(property.violationNoticeDate)),
     deadline |-> Optional(Truthy(property.complianceDeadline),
                           toLocaleDateString(property.complianceDeadline)),
     reinspection |-> Optional(Truthy(property.reinspectionDate),
                               toLocaleDateString(property.reinspectionDate))])

\* the follow-up block: `Violation Notice Sent` and the dates that are non-empty
FollowUp(property) ==
  Optional(property.violationNotice,
    [date |-> Optional(Truthy(property.violationNoticeDate),
                       toLocaleDateString(property.violationNoticeDate)),
     deadline |-> Optional(Truthy(property.complianceDeadline),
                           toLocaleDateString(property.complianceDeadline)),
     reinspection |-> Optional(Truthy(property.reinspectionDate),
                               toLocaleDateString(property.reinspectionDate))])

Min(a, b) == IF a < b THEN a ELSE b

\* ------------------------------------------------------------------------
\* formatReportAsHTML

\* lines 168-186: the photo grid, at most 6 thumbnails and a '+N more' tile
PhotoGrid(property) ==
  Optional(Len(property.images) > 0,
    [count |-> Len(property.images),
     thumbnails |-> SubSeq(property.images, 1, Min(6, Len(property.images))),
     more |-> Optional(Len(property.images) > 6, Len(property.images) - 6)])

\* lines 110-188: the block of one property
HTMLSection(property, index) ==
  [index |-> index,
   address |-> property.address,
   reviewTeam |-> property.reviewTeam,
   reviewDate |-> toLocaleDateString(property.reviewDate),
   submittedBy |-> property.submittedBy,
   statusColor |-> getStatusColor(property.complianceStatus),
   status |-> formatStatus(property.complianceStatus),
   photosAttached |-> Optional(property.imageCount > 0, property.imageCount),
   violationsFound |-> Len(property.nonCompliantItems),
   majorIssues |-> Labels(MajorItems(property)),
   minorIssues |-> Labels(MinorItems(property)),
   comments |-> Optional(Truthy(property.comments), property.comments),
   followUp |-> FollowUp(property),
   photos |-> PhotoGrid(property)]

\* lines 191-201
HTMLSummary(data) ==
  [totalProperties |-> Len(data),
   totalViolations |-> SumViolations(data, 1),
   majorIssues |-> CountMajor(data),
   withPhotos |-> CountPhotos(data),
   noticesSent |-> CountNotices(data)]

\* lines 87-211; property.images.length throws a TypeError when images is undefined
formatReportAsHTML(data) ==
  IF Len(data) = 0
  THEN Returned([empty |-> TRUE, message |-> "No properties with violations found."])
  ELSE IF \E i \in DOMAIN data : data[i].images = UNDEFINED_SEQ
  THEN Threw("TypeError")
  ELSE Returned([empty |-> FALSE,
                 generated |-> now,
                 total |-> Len(data),
                 sections |-> [i \in DOMAIN data |-> HTMLSection(data[i], i)],
                 summary |-> HTMLSummary(data)])

\* ------------------------------------------------------------------------
\* formatReportAsText

\* lines 229-278
TextSection(property, index) ==
  [index |-> index,
   address |-> property.address,
   reviewTeam |-> property.reviewTeam,
   reviewDate |-> toLocaleDateString(property.reviewDate),
   submittedBy |-> property.submittedBy,
   status |-> formatStatus(property.complianceStatus),
   photosAttached |-> Optional(property.imageCount > 0, property.imageCount),
   violationsFound |-> Len(property.nonCompliantItems),
   majorIssues |-> Labels(MajorItems(property)),
   minorIssues |-> Labels(MinorItems(property)),
   comments |-> Optional(Truthy(property.comments), property.comments),
   followUp |-> FollowUp(property)]

\* lines 280-287
TextSummary(data) ==
  [totalProperties |-> Len(data),
   totalViolations |-> SumViolations(data, 1),
   majorIssues |-> CountMajor(data),
   withPhotos |-> CountPhotos(data),
   noticesSent |-> CountNotices(data)]

\* lines 218-290
formatReportAsText(data) ==
  IF Len(data) = 0
  THEN Returned([empty |-> TRUE, message |-> "No properties with violations found."])
  ELSE Returned([empty |-> FALSE,
                 generated |-> now,
                 total |-> Len(data),
                 sections |-> [i \in DOMAIN data |-> TextSection(data[i], i)],
                 summary |-> TextSummary(data)])

\* ------------------------------------------------------------------------
\* generateViolationLettersDocument

\* lines 1596-1650: one numbered hyperlink 'Photo N' per image
PhotoLinks(property) ==
  Optional(TruthyArr(property.images) /\ Len(property.images) > 0,
    [count |-> Len(property.images),
     links |-> [n \in DOMAIN property.images |-> [number |-> n, link |-> property.images[n]]]])

\* lines 1404-1722: the section of one property
DocSection(property, index, total) ==
  [index |-> index,
   of |-> total,
   address |-> property.address,
   reviewDate |-> toLocaleDateString(property.reviewDate),
   reviewTeam |-> property.reviewTeam,
   submittedBy |-> property.submittedBy,
   status |-> formatStatus(property.complianceStatus),
   photosAvailable |-> property.imageCount,
   violationsFound |-> Len(property.nonCompliantItems),
   majorIssues |-> Labels(MajorItems(property)),
   minorIssues |-> Labels(MinorItems(property)),
   comments |-> Optional(Truthy(property.comments), property.comments),
   photos |-> PhotoLinks(property),
   followUp |-> FollowUp(property),
   separator |-> index < total]

\* lines 1356-1361, with the photo count taken from the image list
DocSummaryByImages(data) ==
  [totalProperties |-> Len(data),
   totalViolations |-> SumViolations(data, 1),
   majorIssues |-> CountMajor(data),
   withPhotos |-> Len(SelectSeq(data, LAMBDA p : Len(p.images) > 0))]

\* lines 1356-1361 and 1363-1401
DocSummary(data) ==
  [totalProperties |-> Len(data),
   totalViolations |-> SumViolations(data, 1),
   majorIssues |-> CountMajor(data),
   withPhotos |-> CountPhotos(data)]

\* lines 1316-1319 without the guard: an empty list gives an empty document
EmptyDocument(data) ==
  Returned([empty |-> TRUE, message |-> "No properties with violations found."])

\* lines 1316-1319: an empty list makes the async function reject
RejectEmpty(data) == Threw("No violation data to generate document")

\* lines 1316-1771
generateViolationLettersDocument(data) ==
  IF Len(data) = 0 THEN RejectEmpty(data)
  ELSE Returned([empty |-> FALSE,
                 generated |-> now,
                 total |-> Len(data),
                 summary |-> DocSummary(data),
                 sections |-> [i \in DOMAIN data |-> DocSection(data[i], i, Len(data))]])

\* ------------------------------------------------------------------------
\* Inspection records the record store can hold

MaxReviews == 2

\* every attribute of a submitted record other than the checklist and the address
FullAttributes ==
  [date |-> "2024-01-15",
   submittedAt |-> "2024-02-01T10:00:00.000Z",
   reviewTeam |-> "Team A",
   submittedBy |-> "inspector@example.com",
   complianceStatus |-> "in-progress",
   detailedComments |-> "Paint is peeling",
   images |-> <<"url1", "url2">>,
   imageCount |-> 2,
   violationNotice |-> "yes",
   violationNoticeDate |-> "2024-03-10",
   complianceDeadline |-> "2024-03-10",
   reinspectionDate |-> "2024-03-10"]

\* the same attributes as an untouched form leaves them: '' (no photos, count 0)
EmptyAttributes ==
  [date |-> "",
   submittedAt |-> "",
   reviewTeam |-> "",
   submittedBy |-> "",
   complianceStatus |-> "",
   detailedComments |-> "",
   images |-> <<>>,
   imageCount |-> 0,
   violationNotice |-> "",
   violationNoticeDate |-> "",
   complianceDeadline |-> "",
   reinspectionDate |-> "",
   propertyAddress |-> <<>>]

Restrict(f, S) == [k \in S |-> f[k]]

\* addresses: missing (no propertyAddress property), and strings that differ
\* in case, in length and in their first or second letter
AddressSamples == {<<"a">>, <<"A">>, <<"B">>, <<"A", "a">>, <<"a", "b">>}

AddressParts == {<<>>} \cup {[propertyAddress |-> a] : a \in AddressSamples}

CompliantChecklist == [gutters |-> "accept", windows |-> "na"]

OneMinorChecklist == [gutters |-> "minor", windows |-> "accept"]

MajorMinorChecklist == [tileRoof |-> "minor", doors |-> "major"]

\* records that differ in address and in the number of violations
OrderPool ==
  {FullAttributes @@ a @@ c :
     a \in AddressParts,
     c \in {CompliantChecklist, OneMinorChecklist, MajorMinorChecklist}}

\* values a checklist field can hold: the four tokens, '', and a token outside the four
FieldValues == {"accept", "minor", "major", "na", "", "bogus"}

\* the first, a middle and the last field of INSPECTION_ITEMS
SampleKeys == {"overallAppearance", "gutters", "approvedParking"}

\* every assignment of field values to every subset of the sample keys
Checklists == UNION {[K -> FieldValues] : K \in SUBSET SampleKeys}

ChecklistPool == {FullAttributes @@ [propertyAddress |-> <<"a">>] @@ c : c \in Checklists}

\* photos and photo count, together or one without the other
PhotoParts ==
  {<<>>,
   [images |-> <<"url1", "url2">>, imageCount |-> 2],
   [images |-> <<"url1">>],
   [imageCount |-> 1]}

\* violation notice and checklist: a notice with and without a major issue,
\* a major issue without a notice
NoticeParts ==
  {[violationNotice |-> "yes"] @@ OneMinorChecklist,
   [violationNotice |-> "yes"] @@ MajorMinorChecklist,
   [violationNotice |-> "no"] @@ MajorMinorChecklist}

\* records that differ in what the summary counts
SummaryPool ==
  {ph @@ n @@ [propertyAddress |-> <<"a">>, submittedAt |-> "2024-02-01T10:00:00.000Z"] :
     ph \in PhotoParts, n \in NoticeParts}

SeqsUpTo(S, n) == UNION {[1..k -> S] : k \in 0..n}

\* lists of records the report is generated from
ReviewLists ==
  SeqsUpTo(OrderPool, MaxReviews)
    \cup {<<r>> : r \in ChecklistPool}
    \cup SeqsUpTo(SummaryPool, MaxReviews)

OptionalAttributes == DOMAIN EmptyAttributes

\* a single record in which the attributes of `present` are set and the others
\* are either missing or left empty
PartialReview(present, missing, c) ==
  Restrict(FullAttributes @@ [propertyAddress |-> <<"B">>], present)
    @@ (IF missing THEN <<>> ELSE Restrict(EmptyAttributes, OptionalAttributes \ present))
    @@ c

PartialReviews ==
  {PartialReview(present, missing, c) :
     present \in SUBSET OptionalAttributes, missing \in BOOLEAN,
     c \in {[doors |-> "major"]}}

\* records with every optional attribute missing, every one empty, every one set
BarePool ==
  {PartialReview({}, TRUE, [doors |-> "major"]),
   PartialReview({}, FALSE, [windows |-> "minor"]),
   PartialReview(OptionalAttributes, TRUE, [gutters |-> "minor"]),
   [violationNotice |-> "no"] @@ PartialReview(OptionalAttributes, TRUE, [tileRoof |-> "major"])}

\* lists of records with absent attributes
PartialReviewLists ==
  {<<r>> : r \in PartialReviews} \cup SeqsUpTo(BarePool, MaxReviews)

\* ------------------------------------------------------------------------
\* State machine: a report is generated from the loaded reviews and rendered

\* ------------------------------------------------------------------------
\* App.js: the routes

NULL == "<null>"

Inspector == "inspector@example.com"

Paths == {"/", "/login", "/form", "/admin", "/other"}

Navigate(to) == [navigate |-> to]

Element(name) == [element |-> name]

\* line 12: currentUser ? children : <Navigate to="/login" />
ProtectedRoute(user, children) ==
  IF user # NULL THEN children ELSE Navigate("/login")

\* lines 20-35: the element of the route that matches the path; no route
\* matches any other path
RouteElement(path, user) ==
  IF path = "/" THEN Navigate("/login")
  ELSE IF path = "/login" THEN Element("Login")
  ELSE IF path = "/form" THEN ProtectedRoute(user, Element("ComplianceForm"))
  ELSE IF path = "/admin" THEN Element("AdminViewer")
  ELSE Element("none")

\* the path the router settles at: a rendered <Navigate> moves it on
\* (every <Navigate> of App.js leads to /login, which renders Login)
SettledPath(path, user) ==
  IF "navigate" \in DOMAIN RouteElement(path, user)
  THEN RouteElement(path, user).navigate
  ELSE path

\* the component mounted once the router has settled
SettledView(path, user) == RouteElement(SettledPath(path, user), user).element

\* ------------------------------------------------------------------------
\* ComplianceForm: photo selection and submission

\* line 641
maxFiles == 10

\* line 642
maxSize == 10 * 1024 * 1024

Photo == [name |-> "photo.jpg", type |-> <<"image", "jpeg">>, size |-> 2048]

HugePhoto == [name |-> "huge.png", type |-> <<"image", "png">>, size |-> maxSize + 1]

Notes == [name |-> "notes.txt", type |-> <<"text", "plain">>, size |-> 10]

Files == {Photo, HugePhoto, Notes}

\* the most photos one selection or drop brings
MaxBatch == 3

\* what one selection or drop can hold: some photos, with or without a file
\* that is no image and a photo over the size limit
Batches ==
  {[i \in 1..k |-> Photo] \o other \o huge :
     k \in 0..MaxBatch, other \in {<<>>, <<Notes>>}, huge \in {<<>>, <<HugePhoto>>}}

\* photos that can be told apart
PhotoA == [name |-> "a.jpg", type |-> <<"image", "jpeg">>, size |-> 4096]

PhotoB == [name |-> "b.jpg", type |-> <<"image", "jpeg">>, size |-> 1024]

NamedBatches == {<<PhotoA>>, <<PhotoA, PhotoB>>, <<PhotoB, Notes>>}

\* the selection length from which no further named files are chosen
MaxSelected == 3

\* the most records the collection holds
MaxSubmissions == 1

\* the most FileReaders at work at a time
MaxPending == 3

\* line 645: file.type.startsWith('image/')
IsImage(file) == file.type[1] = "image"

MaxImagesMessage == "Maximum 10 images allowed"

TooLargeMessage == "Some files are too large. Maximum size is 10MB per image."

SubmitErrorMessage == "Error submitting form"

\* line 648 with the files already selected left out of the sum
ExceedsMaxInBatch(selected, imageFiles) == Len(imageFiles) > maxFiles

\* line 648
ExceedsMax(selected, imageFiles) == Len(selected) + Len(imageFiles) > maxFiles

\* line 655 looking at the first image only
OversizedFirst(imageFiles) ==
  IF imageFiles # <<>> /\ imageFiles[1].size > maxSize THEN <<imageFiles[1]>> ELSE <<>>

\* line 655
Oversized(imageFiles) == SelectSeq(imageFiles, LAMBDA file : file.size > maxSize)

\* filter((_, i) => i !== index), index counted from 0
RemoveAt(list, index) ==
  [i \in 1..(Len(list) - (IF index + 1 \in DOMAIN list THEN 1 ELSE 0)) |->
     IF i < index + 1 THEN list[i] ELSE list[i + 1]]

NotSubmitting == [active |-> FALSE]

\* lines 776-786: the record handleSubmit stores (the photo attributes of it)
SubmitData(urls, user) ==
  [images |-> urls, imageCount |-> Len(urls), submittedBy |-> user]

\* lines 706-733: one download URL per file of the list uploadImages was called with
UploadedURLs(files) ==
  [i \in DOMAIN files |-> <<"compliance-photos", files[i].name>>]

InitRoute ==
  /\ currentUser = NULL
  /\ location = "/login"
  /\ view = "Login"
  /\ loginError = ""

InitForm ==
  /\ selectedFiles = <<>>
  /\ imagePreviews = <<>>
  /\ pendingReads = <<>>
  /\ formError = ""
  /\ errorTimer = FALSE

InitApp ==
  /\ InitRoute
  /\ InitForm
  /\ submission = NotSubmitting
  /\ store = <<>>

\* the state of ComplianceForm after the router change: kept while the form
\* stays mounted, the useState initial values (lines 619-625) otherwise; a
\* handleSubmit call in flight goes on without its component
FormAfterRouting(newView) ==
  IF view = "ComplianceForm" /\ newView = "ComplianceForm"
  THEN UNCHANGED <<selectedFiles, imagePreviews, pendingReads, formError, errorTimer,
                   submission>>
  ELSE /\ selectedFiles' = <<>>
       /\ imagePreviews' = <<>>
       /\ pendingReads' = <<>>
       /\ formError' = ""
       /\ errorTimer' = FALSE
       /\ submission' = IF submission.active
                        THEN [submission EXCEPT !.mounted = FALSE]
                        ELSE submission

\* the visitor opens a path (address bar or <Link>)
Visit ==
  \E path \in Paths :
    /\ location' = SettledPath(path, currentUser)
    /\ view' = SettledView(path, currentUser)
    /\ loginError' = IF view = "Login" /\ view' = "Login" THEN loginError ELSE ""
    /\ FormAfterRouting(view')
    /\ UNCHANGED <<currentUser, store>>
    /\ UNCHANGED nonAppVars

\* Login.handleSubmit, lines 14-46
LoginSubmit ==
  /\ view = "Login"
  /\ \E filled \in BOOLEAN, accepted \in BOOLEAN :
       IF ~filled
       THEN /\ loginError' = "Please enter both email and password"
            /\ UNCHANGED <<currentUser, location, view>>
       ELSE IF accepted
       THEN /\ currentUser' = Inspector
            /\ loginError' = ""
            /\ location' = SettledPath("/form", Inspector)
            /\ view' = SettledView("/form", Inspector)
       ELSE /\ loginError' = "Failed to sign in."
            /\ UNCHANGED <<currentUser, location, view>>
  /\ UNCHANGED formVars
  /\ UNCHANGED nonAppVars

\* handleSignOut (AdminViewer lines 162-169, ComplianceForm lines 853-860)
HandleSignOut ==
  /\ view \in {"ComplianceForm", "AdminViewer"}
  /\ \E signedOut \in BOOLEAN :
       IF signedOut
       THEN /\ currentUser' = NULL
            /\ location' = SettledPath("/login", NULL)
            /\ view' = SettledView("/login", NULL)
            /\ loginError' = ""
            /\ FormAfterRouting("Login")
       ELSE UNCHANGED <<routeVars, selectedFiles, imagePreviews, pendingReads,
                        formError, errorTimer, submission>>
  /\ UNCHANGED store
  /\ UNCHANGED nonAppVars

\* handleFileSelect / handleDrop -> handleFiles(files), lines 635-677 and 693-698
HandleFilesFrom(batches) ==
  /\ view = "ComplianceForm"
  /\ \E files \in batches :
       LET imageFiles == SelectSeq(files, IsImage) IN
         /\ Len(pendingReads) + Len(imageFiles) <= MaxPending
         /\ IF ExceedsMax(selectedFiles, imageFiles)
            THEN /\ formError' = MaxImagesMessage
                 /\ errorTimer' = TRUE
                 /\ UNCHANGED <<selectedFiles, pendingReads>>
            ELSE IF Len(Oversized(imageFiles)) > 0
            THEN /\ formError' = TooLargeMessage
                 /\ errorTimer' = TRUE
                 /\ UNCHANGED <<selectedFiles, pendingReads>>
            ELSE /\ selectedFiles' = selectedFiles \o imageFiles
                 /\ pendingReads' =
                      pendingReads \o [i \in DOMAIN imageFiles |-> imageFiles[i].name]
                 /\ UNCHANGED <<formError, errorTimer>>
  /\ UNCHANGED <<routeVars, imagePreviews, submission, store>>
  /\ UNCHANGED nonAppVars

HandleFiles == HandleFilesFrom(Batches)

\* handleFiles on files that differ in their names, while few are selected
HandleNamedFiles ==
  /\ Len(selectedFiles) < MaxSelected
  /\ HandleFilesFrom(NamedBatches)

\* reader.onload, lines 668-673: the readers finish in any order
ReaderOnload ==
  /\ view = "ComplianceForm"
  /\ \E i \in DOMAIN pendingReads :
       /\ imagePreviews' = Append(imagePreviews, [url |-> <<"data", pendingReads[i]>>,
                                                  name |-> pendingReads[i]])
       /\ pendingReads' = RemoveAt(pendingReads, i - 1)
  /\ UNCHANGED <<routeVars, selectedFiles, formError, errorTimer, submission, store>>
  /\ UNCHANGED nonAppVars

\* removeImage(index), lines 679-682; a remove button exists per preview (line 1006)
RemoveImage ==
  /\ view = "ComplianceForm"
  /\ \E index \in 0..(Len(imagePreviews) - 1) :
       /\ selectedFiles' = RemoveAt(selectedFiles, index)
       /\ imagePreviews' = RemoveAt(imagePreviews, index)
  /\ UNCHANGED <<routeVars, pendingReads, formError, errorTimer, submission, store>>
  /\ UNCHANGED nonAppVars

\* setTimeout(() => setError(''), 5000), lines 650 and 658; other timers may remain
ErrorTimeout ==
  /\ view = "ComplianceForm"
  /\ errorTimer
  /\ formError' = ""
  /\ errorTimer' \in BOOLEAN
  /\ UNCHANGED <<routeVars, selectedFiles, imagePreviews, pendingReads, submission, store>>
  /\ UNCHANGED nonAppVars

\* handleSubmit up to its first await, lines 769-777: uploadImages works on the
\* selectedFiles of the render the handler belongs to
StartSubmit ==
  /\ view = "ComplianceForm"
  /\ ~submission.active
  /\ Len(store) < MaxSubmissions
  /\ formError' = ""
  /\ submission' = [active |-> TRUE, files |-> selectedFiles, user |-> currentUser,
                    mounted |-> TRUE]
  /\ UNCHANGED <<routeVars, selectedFiles, imagePreviews, pendingReads, errorTimer, store>>
  /\ UNCHANGED nonAppVars

\* handleSubmit after the uploads, lines 779-836 and 847-850
CompleteSubmit ==
  /\ submission.active
  /\ store' = Append(store, SubmitData(UploadedURLs(submission.files), submission.user))
  /\ submission' = NotSubmitting
  /\ IF submission.mounted
     THEN /\ selectedFiles' = <<>>
          /\ imagePreviews' = <<>>
     ELSE UNCHANGED <<selectedFiles, imagePreviews>>
  /\ UNCHANGED <<routeVars, pendingReads, formError, errorTimer>>
  /\ UNCHANGED nonAppVars

\* handleSubmit when an upload or addDoc rejects, lines 731-734 and 843-850
FailSubmit ==
  /\ submission.active
  /\ submission' = NotSubmitting
  /\ formError' = IF submission.mounted THEN SubmitErrorMessage ELSE formError
  /\ UNCHANGED <<routeVars, selectedFiles, imagePreviews, pendingReads, errorTimer, store>>
  /\ UNCHANGED nonAppVars

PreviewNext == HandleNamedFiles \/ ReaderOnload \/ RemoveImage

AppNext ==
  \/ Visit
  \/ LoginSubmit
  \/ HandleSignOut
  \/ HandleFiles
  \/ ReaderOnload
  \/ RemoveImage
  \/ ErrorTimeout
  \/ StartSubmit
  \/ CompleteSubmit
  \/ FailSubmit

\* ------------------------------------------------------------------------
\* State machine of the report pipeline

\* records for calls that are made twice: one without an image list, one with
\* photos, one that is compliant
RepeatPool ==
  {Restrict(FullAttributes, DOMAIN FullAttributes \ {"images", "imageCount"})
     @@ [propertyAddress |-> <<"A">>] @@ MajorMinorChecklist,
   FullAttributes @@ [propertyAddress |-> <<"a">>] @@ OneMinorChecklist,
   FullAttributes @@ [propertyAddress |-> <<"B">>] @@ CompliantChecklist}

RepeatLists == SeqsUpTo(RepeatPool, MaxReviews)

\* the last value the clock reaches
MaxClock == 1

NoPrevious == [of |-> "none"]

TypeOK ==
  /\ reportData.kind \in {"none", "returned", "threw"}
  /\ html.kind \in {"none", "returned", "threw"}
  /\ text.kind \in {"none", "returned", "threw"}
  /\ doc.kind \in {"none", "returned", "threw"}
  /\ now \in 0..MaxClock
  /\ previous.of \in {"none", "report", "html", "text", "doc"}

NoAttempts == [generate |-> 0, pack |-> 0, save |-> 0]

\* downloadViolationsDocument has not been called
Idle == [pc |-> "idle", attempts |-> NoAttempts, raised |-> NULL, result |-> NotCalled]

\* no image has been probed
NoProbe == [outcome |-> "none", promise |-> NotCalled]

InitDownload ==
  /\ dimensions = NoProbe
  /\ buffer = NoProbe
  /\ download = Idle

\* ------------------------------------------------------------------------
\* AdminViewer: filters, modal and lightbox (initial state)

\* lines 19-26
NoFilters ==
  [address |-> <<>>, team |-> <<>>, dateFrom |-> "", dateTo |-> "", status |-> "",
   hasImages |-> ""]

\* lines 13-15 and 29-35; the effects of the first render (loadReviews,
\* applyFilters, the keydown handler) have run
InitAdmin ==
  /\ filters = NoFilters
  /\ filteredReviews = <<>>
  /\ loading = TRUE
  /\ filterEffect = FALSE
  /\ selectedReview = NULL
  /\ showModal = FALSE
  /\ lightboxImages = <<>>
  /\ lightboxIndex = 0
  /\ showLightbox = FALSE
  /\ keyHandler = [showLightbox |-> FALSE, lightboxImages |-> <<>>]

\* lines 581-616: the required fields of the empty form
BlankForm == [date |-> "", reviewTeam |-> "", propertyAddress |-> ""]

EnteredForm == [date |-> "2024-01-15", reviewTeam |-> "Team A", propertyAddress |-> "12 Oak"]

NoSubmitCall == [pc |-> "idle"]

\* lines 581-625: the useState initial values of the form
InitSubmitForm ==
  /\ formData = BlankForm
  /\ uploading = FALSE
  /\ uploadProgress = 0
  /\ success = FALSE
  /\ submitting = FALSE
  /\ hideTimers = 0
  /\ outbox = <<>>
  /\ submitCall = NoSubmitCall

\* Login.jsx lines 7-10: the useState initial values (error: loginError)
InitLogin ==
  /\ email = ""
  /\ password = ""
  /\ loginLoading = FALSE
  /\ signIns = <<>>

\* useGoogleAutocomplete.js lines 9-10, before the first effect run
InitHook ==
  /\ hookRender = 0
  /\ instances = <<>>
  /\ autocompleteRef = 0
  /\ effectCleanup = "none"
  /\ polling = FALSE
  /\ pollTimeout = FALSE
  /\ invoked = <<>>

\* the parts of the state that the named specifications do not let vary
InitElsewhere == InitLogin /\ InitHook /\ mapsLoaded = FALSE

\* line 568: without REACT_APP_EMAILJS_PUBLIC_KEY the placeholder key is used
InitExtra == InitAdmin /\ InitSubmitForm /\ configured = FALSE /\ InitElsewhere

\* the two report generations that run at the same time
Calls == {1, 2}

\* a reference to the array object of that name
Ref(name) == <<name>>

\* the image arrays the loaded records hold
InitialHeap == [photosA |-> <<"url1", "url2">>, photosB |-> <<"url1">>]

\* loaded records: the images attribute holds a reference to an array object
CallPool ==
  {Restrict(FullAttributes, DOMAIN FullAttributes \ {"images", "imageCount"})
     @@ [propertyAddress |-> <<"A">>] @@ MajorMinorChecklist,
   [images |-> Ref("photosA")] @@ FullAttributes
     @@ [propertyAddress |-> <<"a">>] @@ OneMinorChecklist,
   [images |-> Ref("photosB"), imageCount |-> 1] @@ FullAttributes
     @@ [propertyAddress |-> <<"B">>] @@ CompliantChecklist}

NotStarted == [pc |-> "start", groups |-> NotCalled, document |-> NotCalled]

InitCalls ==
  /\ heap = InitialHeap
  /\ inputs = [c \in Calls |-> <<>>]
  /\ calls = [c \in Calls |-> NotStarted]

InitReport ==
  /\ reportData = NotCalled
  /\ html = NotCalled
  /\ text = NotCalled
  /\ doc = NotCalled
  /\ now = 0
  /\ previous = NoPrevious

Init ==
  /\ allReviews \in ReviewLists
  /\ InitReport
  /\ InitApp
  /\ InitDownload
  /\ InitCalls
  /\ InitExtra

InitFields ==
  /\ allReviews \in PartialReviewLists
  /\ InitReport
  /\ InitApp
  /\ InitDownload
  /\ InitCalls
  /\ InitExtra

InitRepeat ==
  /\ allReviews \in RepeatLists
  /\ InitReport
  /\ InitApp
  /\ InitDownload
  /\ InitCalls
  /\ InitExtra

\* the application before any record is loaded
InitVisitor ==
  /\ allReviews = <<>>
  /\ InitReport
  /\ InitApp
  /\ InitDownload
  /\ InitCalls
  /\ InitExtra

\* the input after generateComplianceReport, had line 65 stored the fallback
\* in the record (review.images = review.images || [])
ReviewsWithImagesStored(reviews) ==
  [i \in DOMAIN reviews |->
     IF "images" \in DOMAIN reviews[i] THEN reviews[i]
     ELSE reviews[i] @@ [images |-> <<>>]]

\* the input after generateComplianceReport: forEach (line 40) reads the
\* records, and the sort (line 77) is applied to reportData, not to allReviews
ReviewsAfterGenerate(reviews) == reviews

\* the list after formatReportAsHTML, had line 173 taken the thumbnails with
\* splice(0, 6), which removes them from property.images
GroupsAfterSplice(data) ==
  [i \in DOMAIN data |-> [data[i] EXCEPT !.images = SubSeq(@, 7, Len(@))]]

\* the list after formatReportAsHTML: forEach, filter, map and reduce read the
\* groups, and slice(0, 6) (line 173) copies
GroupsAfterHTML(data) == data

\* the list after formatReportAsText: forEach, filter and reduce read the groups
GroupsAfterText(data) == data

\* the list after generateViolationLettersDocument: filter, reduce, forEach
\* and length read the groups
GroupsAfterDocument(data) == data

\* reportData = generateComplianceReport(allReviews)
GenerateReport ==
  /\ reportData' = generateComplianceReport(allReviews)
  /\ allReviews' = ReviewsAfterGenerate(allReviews)
  /\ previous' = NoPrevious
  /\ UNCHANGED <<html, text, doc, now>>
  /\ UNCHANGED nonReportVars

\* html = formatReportAsHTML(reportData)
RenderHTML ==
  /\ reportData.kind = "returned"
  /\ html' = formatReportAsHTML(reportData.value)
  /\ reportData' = Returned(GroupsAfterHTML(reportData.value))
  /\ previous' = NoPrevious
  /\ UNCHANGED <<allReviews, text, doc, now>>
  /\ UNCHANGED nonReportVars

\* text = formatReportAsText(reportData)
RenderText ==
  /\ reportData.kind = "returned"
  /\ text' = formatReportAsText(reportData.value)
  /\ reportData' = Returned(GroupsAfterText(reportData.value))
  /\ previous' = NoPrevious
  /\ UNCHANGED <<allReviews, html, doc, now>>
  /\ UNCHANGED nonReportVars

\* doc = await generateViolationLettersDocument(reportData)
RenderDocument ==
  /\ reportData.kind = "returned"
  /\ doc' = generateViolationLettersDocument(reportData.value)
  /\ reportData' = Returned(GroupsAfterDocument(reportData.value))
  /\ previous' = NoPrevious
  /\ UNCHANGED <<allReviews, html, text, now>>
  /\ UNCHANGED nonReportVars

\* time passes between two calls
Tick ==
  /\ now < MaxClock
  /\ now' = now + 1
  /\ UNCHANGED <<allReviews, reportData, html, text, doc, previous>>
  /\ UNCHANGED nonReportVars

\* generateComplianceReport(allReviews) called a second time; the first
\* completion is kept in previous
RepeatGenerate ==
  /\ reportData.kind # "none"
  /\ previous' = [of |-> "report", out |-> reportData]
  /\ reportData' = generateComplianceReport(allReviews)
  /\ allReviews' = ReviewsAfterGenerate(allReviews)
  /\ UNCHANGED <<html, text, doc, now>>
  /\ UNCHANGED nonReportVars

\* formatReportAsHTML(reportData) called a second time
RepeatHTML ==
  /\ reportData.kind = "returned"
  /\ html.kind # "none"
  /\ previous' = [of |-> "html", out |-> html]
  /\ html' = formatReportAsHTML(reportData.value)
  /\ reportData' = Returned(GroupsAfterHTML(reportData.value))
  /\ UNCHANGED <<allReviews, text, doc, now>>
  /\ UNCHANGED nonReportVars

\* formatReportAsText(reportData) called a second time
RepeatText ==
  /\ reportData.kind = "returned"
  /\ text.kind # "none"
  /\ previous' = [of |-> "text", out |-> text]
  /\ text' = formatReportAsText(reportData.value)
  /\ reportData' = Returned(GroupsAfterText(reportData.value))
  /\ UNCHANGED <<allReviews, html, doc, now>>
  /\ UNCHANGED nonReportVars

\* generateViolationLettersDocument(reportData) called a second time
RepeatDocument ==
  /\ reportData.kind = "returned"
  /\ doc.kind # "none"
  /\ previous' = [of |-> "doc", out |-> doc]
  /\ doc' = generateViolationLettersDocument(reportData.value)
  /\ reportData' = Returned(GroupsAfterDocument(reportData.value))
  /\ UNCHANGED <<allReviews, html, text, now>>
  /\ UNCHANGED nonReportVars

\* ------------------------------------------------------------------------
\* Photo probing and the document download (AdminViewer.jsx 1238-1310, 1777-1797)

Pending == [kind |-> "pending"]

\* natural sizes an image can load with
ImageSizes ==
  {[width |-> 300, height |-> 200],
   [width |-> 600, height |-> 600],
   [width |-> 1200, height |-> 800]}

\* how loading and converting an image can go: it fails to load, drawing on
\* the canvas throws, toBlob yields no blob, reading the blob fails, or all works
LoadOutcomes == {"onerror", "convertThrows", "noBlob", "readFails", "loaded"}

\* lines 1296-1301: scale = Math.min(1, 600 / img.width)
ScaledDimensions(img) ==
  IF img.width <= 600
  THEN Returned([width |-> img.width, height |-> img.height])
  ELSE Returned([width |-> 600, height |-> (img.height * 600) \div img.width])

\* lines 1303-1306 with the promise rejected instead
RejectOnError(url) == Threw("image failed to load")

\* lines 1303-1306: img.onerror resolves with the default dimensions
DefaultDimensions(url) == Returned([width |-> 400, height |-> 300])

\* lines 1292-1310
getImageDimensions(url, outcome, img) ==
  IF outcome = "loaded" THEN ScaledDimensions(img) ELSE DefaultDimensions(url)

\* lines 1238-1285: resolve(null) from img.onerror, from the catch block and
\* for a null blob; the promise stays pending when blob.arrayBuffer() rejects
\* inside the toBlob callback; it is never rejected
fetchImageAsBuffer(url, outcome) ==
  IF outcome = "onerror" THEN Returned(NULL)
  ELSE IF outcome = "convertThrows" THEN Returned(NULL)
  ELSE IF outcome = "noBlob" THEN Returned(NULL)
  ELSE IF outcome = "readFails" THEN Pending
  ELSE Returned("ArrayBuffer")

\* every photo reference of every record loaded
PhotoURLs ==
  UNION {{GetSeq(allReviews[i], "images")[n] : n \in DOMAIN GetSeq(allReviews[i], "images")}
           : i \in DOMAIN allReviews} \ {UNDEFINED}

\* lines 1794-1797 with the error swallowed
ReturnFalse(error) == Returned(FALSE)

\* lines 1794-1797: catch (error) { console.error(...); throw error; }
Rethrow(error) == Threw(error)

\* the call after a step raised the error: the catch block settles it
Caught(call, error) ==
  [call EXCEPT !.pc = "done", !.raised = error, !.result = Rethrow(error)]

\* getImageDimensions(url) settles
GetImageDimensions ==
  /\ \E url \in PhotoURLs, outcome \in {"onerror", "loaded"}, img \in ImageSizes :
       dimensions' = [outcome |-> outcome,
                      promise |-> getImageDimensions(url, outcome, img)]
  /\ UNCHANGED <<buffer, download>>
  /\ UNCHANGED nonDownloadVars

\* fetchImageAsBuffer(url) settles or stays pending
FetchImageAsBuffer ==
  /\ \E url \in PhotoURLs, outcome \in LoadOutcomes :
       buffer' = [outcome |-> outcome, promise |-> fetchImageAsBuffer(url, outcome)]
  /\ UNCHANGED <<dimensions, download>>
  /\ UNCHANGED nonDownloadVars

\* downloadViolationsDocument(reportData), line 1779:
\* const doc = await generateViolationLettersDocument(reportData)
DownloadGenerate ==
  /\ reportData.kind = "returned"
  /\ download.pc \in {"idle", "done"}
  /\ LET built == generateViolationLettersDocument(reportData.value)
         call == [Idle EXCEPT !.attempts.generate = 1]
     IN  /\ doc' = built
         /\ download' = IF built.kind = "threw"
                        THEN Caught(call, built.error)
                        ELSE [call EXCEPT !.pc = "generated"]
  /\ reportData' = Returned(GroupsAfterDocument(reportData.value))
  /\ previous' = NoPrevious
  /\ UNCHANGED <<allReviews, html, text, now>>
  /\ UNCHANGED <<dimensions, buffer>>
  /\ UNCHANGED <<appVars, callVars, extraVars>>

\* lines 1782-1783: await import('docx'); await Packer.toBlob(doc)
DownloadPack ==
  /\ download.pc = "generated"
  /\ \E outcome \in {"importFails", "packFails", "packed"} :
       download' =
         IF outcome = "importFails" THEN Caught(download, "import failed")
         ELSE IF outcome = "packFails"
         THEN Caught([download EXCEPT !.attempts.pack = @ + 1], "Packer.toBlob failed")
         ELSE [download EXCEPT !.attempts.pack = @ + 1, !.pc = "packed"]
  /\ UNCHANGED <<dimensions, buffer>>
  /\ UNCHANGED nonDownloadVars

\* lines 1786-1792: saveAs(blob, filename); return true
DownloadSave ==
  /\ download.pc = "packed"
  /\ \E saved \in BOOLEAN :
       download' =
         IF saved
         THEN [download EXCEPT !.attempts.save = @ + 1, !.pc = "done",
                               !.result = Returned(TRUE)]
         ELSE Caught([download EXCEPT !.attempts.save = @ + 1], "saveAs failed")
  /\ UNCHANGED <<dimensions, buffer>>
  /\ UNCHANGED nonDownloadVars

DownloadNext ==
  \/ GenerateReport
  \/ GetImageDimensions
  \/ FetchImageAsBuffer
  \/ DownloadGenerate
  \/ DownloadPack
  \/ DownloadSave

\* ------------------------------------------------------------------------
\* Two report generations at the same time

InitConcurrent ==
  /\ allReviews = <<>>
  /\ InitReport
  /\ InitApp
  /\ InitDownload
  /\ heap = InitialHeap
  /\ inputs \in [Calls -> SeqsUpTo(CallPool, MaxReviews)]
  /\ calls = [c \in Calls |-> NotStarted]
  /\ InitExtra

\* the array a group's images attribute denotes: the object it refers to, or
\* the array literal the group was built with
Deref(images, h) ==
  IF Len(images) = 1 /\ images[1] \in DOMAIN h THEN h[images[1]] ELSE images

\* the groups as a renderer reads them
Dereferenced(groups, h) ==
  [j \in DOMAIN groups |-> [groups[j] EXCEPT !.images = Deref(@, h)]]

\* generateComplianceReport(list) and, in the same turn, the synchronous part
\* of downloadViolationsDocument up to its first await (the document is built)
CallGenerate(c) ==
  /\ calls[c].pc = "start"
  /\ LET report == generateComplianceReport(inputs[c]) IN
       calls' = [calls EXCEPT ![c] =
         [pc |-> IF report.kind = "returned" /\ Len(report.value) > 0
                 THEN "generated" ELSE "done",
          groups |-> report,
          document |-> IF report.kind = "returned"
                       THEN generateViolationLettersDocument(Dereferenced(report.value, heap))
                       ELSE NotCalled]]
  /\ UNCHANGED <<heap, inputs>>
  /\ UNCHANGED nonCallVars

\* the call resumes after await Packer.toBlob(doc)
CallPack(c) ==
  /\ calls[c].pc = "generated"
  /\ calls' = [calls EXCEPT ![c].pc = "packed"]
  /\ UNCHANGED <<heap, inputs>>
  /\ UNCHANGED nonCallVars

\* saveAs(blob, filename); return true
CallSave(c) ==
  /\ calls[c].pc = "packed"
  /\ calls' = [calls EXCEPT ![c].pc = "done"]
  /\ UNCHANGED <<heap, inputs>>
  /\ UNCHANGED nonCallVars

ConcurrentNext ==
  \E c \in Calls : CallGenerate(c) \/ CallPack(c) \/ CallSave(c)

\* ------------------------------------------------------------------------
\* AdminViewer: loading and filtering the reviews (lines 37-45, 61-132)

\* in the records of the admin viewer the review team, which the filter
\* searches, is a character sequence like the address
OakReview ==
  [id |-> "r1", propertyAddress |-> <<"O", "a", "k">>, reviewTeam |-> <<"T", "a">>,
   date |-> "2024-01-15", complianceStatus |-> "resolved",
   images |-> <<"url1", "url2">>, imageCount |-> 2]

OatReview ==
  [id |-> "r2", propertyAddress |-> <<"o", "a", "t">>, reviewTeam |-> <<"t", "b">>,
   date |-> "2024-02-01", complianceStatus |-> "in-progress",
   images |-> <<>>, imageCount |-> 0]

BareReview == [id |-> "r3", date |-> ""]

PineReview ==
  [id |-> "r4", propertyAddress |-> <<"P", "i">>, reviewTeam |-> <<"T", "a">>,
   date |-> "2024-03-10", complianceStatus |-> "further-action",
   images |-> <<"url1", "url2", "url3", "url4", "url5">>, imageCount |-> 5]

\* what the collection can hold when it is read (orderBy submittedAt desc)
StoredLists ==
  {<<>>,
   <<OakReview, OatReview, BareReview, PineReview>>,
   <<PineReview, BareReview, OatReview, OakReview>>,
   <<OatReview, OatReview, OakReview>>}

\* values the filter inputs can be given
FilterValues ==
  [address |-> {<<>>, <<"O", "A">>, <<"k">>},
   team |-> {<<>>, <<"t", "a">>},
   dateFrom |-> {"", "2024-02-01"},
   dateTo |-> {"", "2024-01-15", "2024-02-01"},
   status |-> {"", "resolved", "in-progress"},
   hasImages |-> {"", "yes", "no"}]

\* the time value of an invalid date, below every valid one
NaN == -1

\* new Date(value).getTime(), in days; an invalid date for '' and undefined
DateValue(value) ==
  IF value = "2024-01-15" THEN 19737
  ELSE IF value = "2024-02-01" THEN 19754
  ELSE IF value = "2024-03-10" THEN 19792
  ELSE NaN

\* a >= b on two Date objects: false when either is invalid
DateGE(a, b) == a # NaN /\ b # NaN /\ a >= b

\* a <= b on two Date objects: false when either is invalid
DateLE(a, b) == a # NaN /\ b # NaN /\ a <= b

\* a < b on two Date objects
DateLT(a, b) == a # NaN /\ b # NaN /\ a < b

\* String.prototype.includes
Includes(str, sub) ==
  \E i \in 0..(Len(str) - Len(sub)) : SubSeq(str, i + 1, i + Len(sub)) = sub

\* r.propertyAddress?.toLowerCase().includes(needle.toLowerCase()): undefined,
\* hence falsy, when the attribute is missing
LowerIncludes(r, key, needle) ==
  /\ key \in DOMAIN r
  /\ Includes(toLowerCase(r[key]), toLowerCase(needle))

\* line 109 with < in place of <=
OnOrBeforeExclusive(r, dateTo) == DateLT(DateValue(Get(r, "date")), DateValue(dateTo))

\* line 103
OnOrAfter(r, dateFrom) == DateGE(DateValue(Get(r, "date")), DateValue(dateFrom))

\* line 109
OnOrBefore(r, dateTo) == DateLE(DateValue(Get(r, "date")), DateValue(dateTo))

\* line 118: r.images && r.images.length > 0
HasImages(r) == "images" \in DOMAIN r /\ Len(r.images) > 0

\* lines 86-125: the filter passes, one after the other
applyFilters(reviews, f) ==
  LET byAddress == IF f.address # <<>>
                   THEN SelectSeq(reviews, LAMBDA r : LowerIncludes(r, "propertyAddress", f.address))
                   ELSE reviews
      byTeam == IF f.team # <<>>
                THEN SelectSeq(byAddress, LAMBDA r : LowerIncludes(r, "reviewTeam", f.team))
                ELSE byAddress
      byFrom == IF f.dateFrom # ""
                THEN SelectSeq(byTeam, LAMBDA r : OnOrAfter(r, f.dateFrom))
                ELSE byTeam
      byTo == IF f.dateTo # ""
              THEN SelectSeq(byFrom, LAMBDA r : OnOrBefore(r, f.dateTo))
              ELSE byFrom
      byStatus == IF f.status # ""
                  THEN SelectSeq(byTo, LAMBDA r : Get(r, "complianceStatus") = f.status)
                  ELSE byTo
  IN  IF f.hasImages = "yes" THEN SelectSeq(byStatus, HasImages)
      ELSE IF f.hasImages = "no" THEN SelectSeq(byStatus, LAMBDA r : ~HasImages(r))
      ELSE byStatus

\* loadReviews settles, lines 61-84: the records are set, or the read failed
LoadReviews ==
  /\ view = "AdminViewer"
  /\ loading
  /\ \/ \E read \in StoredLists :
            /\ allReviews' = read
            /\ filterEffect' = TRUE
     \/ UNCHANGED <<allReviews, filterEffect>>
  /\ loading' = FALSE
  /\ UNCHANGED <<filters, filteredReviews>>
  /\ UNCHANGED lightboxVars
  /\ UNCHANGED <<reportData, html, text, doc, now, previous>>
  /\ UNCHANGED nonAdminVars

\* handleFilterChange, lines 127-132
HandleFilterChange ==
  /\ view = "AdminViewer"
  /\ \E name \in DOMAIN FilterValues :
       \E value \in FilterValues[name] :
         filters' = [filters EXCEPT ![name] = value]
  /\ filterEffect' = TRUE
  /\ UNCHANGED <<filteredReviews, loading>>
  /\ UNCHANGED lightboxVars
  /\ UNCHANGED <<reportVars, nonAdminVars>>

\* useEffect(() => applyFilters(), [filters, allReviews]), lines 42-45
FilterEffect ==
  /\ view = "AdminViewer"
  /\ filterEffect
  /\ filteredReviews' = applyFilters(allReviews, filters)
  /\ filterEffect' = FALSE
  /\ UNCHANGED <<filters, loading>>
  /\ UNCHANGED lightboxVars
  /\ UNCHANGED <<reportVars, nonAdminVars>>

AdminNext == LoadReviews \/ HandleFilterChange \/ FilterEffect

\* ------------------------------------------------------------------------
\* AdminViewer: the review modal and the image lightbox (lines 47-59, 134-160)
\*
\* The modal and the lightbox are overlays: while the lightbox is shown the
\* thumbnails under it cannot be clicked, and while the modal is shown the
\* cards under it cannot be (the style sheet is not part of the sources).

Keys == {"ArrowLeft", "ArrowRight", "Escape", "Enter"}

\* review.images.slice(0, 4), line 337
MaxThumbs == 4

\* line 155 without the remainder
NextIndexUnwrapped(prev, length) == prev + 1

\* line 155
NextIndex(prev, length) == (prev + 1) % length

\* line 159
PrevIndex(prev, length) == (prev - 1 + length) % length

\* the effect of lines 48-59 installs a new handleKeyDown, closed over the
\* render's showLightbox and lightboxImages, when showLightbox or
\* lightboxIndex has changed
KeyHandlerAfter(shown, images, index) ==
  IF shown # showLightbox \/ index # lightboxIndex
  THEN [showLightbox |-> shown, lightboxImages |-> images]
  ELSE keyHandler

\* openModal, lines 134-137, by a click on a review card (line 326)
OpenModal ==
  /\ view = "AdminViewer"
  /\ ~showModal /\ ~showLightbox
  /\ \E i \in DOMAIN filteredReviews : selectedReview' = filteredReviews[i]
  /\ showModal' = TRUE
  /\ UNCHANGED <<lightboxImages, lightboxIndex, showLightbox, keyHandler>>
  /\ UNCHANGED <<filterVars, reportVars, nonAdminVars>>

\* closeModal, lines 139-142
CloseModal ==
  /\ view = "AdminViewer"
  /\ showModal /\ ~showLightbox
  /\ showModal' = FALSE
  /\ selectedReview' = NULL
  /\ UNCHANGED <<lightboxImages, lightboxIndex, showLightbox, keyHandler>>
  /\ UNCHANGED <<filterVars, reportVars, nonAdminVars>>

\* openLightbox(images, index), lines 144-148
openLightbox(images, index) ==
  /\ lightboxImages' = images
  /\ lightboxIndex' = index
  /\ showLightbox' = TRUE
  /\ keyHandler' = KeyHandlerAfter(TRUE, images, index)

\* a click on one of the first four thumbnails of a card (lines 335-352) or
\* on a thumbnail of the modal (lines 395-403)
OpenLightbox ==
  /\ view = "AdminViewer"
  /\ ~showLightbox
  /\ \/ /\ ~showModal
        /\ \E i \in DOMAIN filteredReviews :
             /\ HasImages(filteredReviews[i])
             /\ \E idx \in 0..(Len(filteredReviews[i].images) - 1) :
                  /\ idx < MaxThumbs
                  /\ openLightbox(filteredReviews[i].images, idx)
     \/ /\ showModal
        /\ HasImages(selectedReview)
        /\ \E idx \in 0..(Len(selectedReview.images) - 1) :
             openLightbox(selectedReview.images, idx)
  /\ UNCHANGED <<selectedReview, showModal>>
  /\ UNCHANGED <<filterVars, reportVars, nonAdminVars>>

\* closeLightbox, lines 150-152, by a click on the lightbox (lines 504-505)
CloseLightbox ==
  /\ view = "AdminViewer"
  /\ showLightbox
  /\ showLightbox' = FALSE
  /\ keyHandler' = KeyHandlerAfter(FALSE, lightboxImages, lightboxIndex)
  /\ UNCHANGED <<selectedReview, showModal, lightboxImages, lightboxIndex>>
  /\ UNCHANGED <<filterVars, reportVars, nonAdminVars>>

\* nextImage, lines 154-156, by a click on the next arrow (line 509)
NextImage ==
  /\ view = "AdminViewer"
  /\ showLightbox
  /\ lightboxIndex' = NextIndex(lightboxIndex, Len(lightboxImages))
  /\ keyHandler' = KeyHandlerAfter(showLightbox, lightboxImages, lightboxIndex')
  /\ UNCHANGED <<selectedReview, showModal, lightboxImages, showLightbox>>
  /\ UNCHANGED <<filterVars, reportVars, nonAdminVars>>

\* prevImage, lines 158-160, by a click on the previous arrow (line 506)
PrevImage ==
  /\ view = "AdminViewer"
  /\ showLightbox
  /\ lightboxIndex' = PrevIndex(lightboxIndex, Len(lightboxImages))
  /\ keyHandler' = KeyHandlerAfter(showLightbox, lightboxImages, lightboxIndex')
  /\ UNCHANGED <<selectedReview, showModal, lightboxImages, showLightbox>>
  /\ UNCHANGED <<filterVars, reportVars, nonAdminVars>>

\* handleKeyDown, lines 49-55: the installed handler, with the showLightbox
\* and the image list of the render that installed it
KeyDown ==
  /\ view = "AdminViewer"
  /\ \E key \in Keys :
       IF ~keyHandler.showLightbox \/ key = "Enter"
       THEN UNCHANGED <<lightboxIndex, showLightbox, keyHandler>>
       ELSE IF key = "Escape"
       THEN /\ showLightbox' = FALSE
            /\ keyHandler' = KeyHandlerAfter(FALSE, lightboxImages, lightboxIndex)
            /\ UNCHANGED lightboxIndex
       ELSE /\ lightboxIndex' =
                 IF key = "ArrowLeft"
                 THEN PrevIndex(lightboxIndex, Len(keyHandler.lightboxImages))
                 ELSE NextIndex(lightboxIndex, Len(keyHandler.lightboxImages))
            /\ keyHandler' = KeyHandlerAfter(showLightbox, lightboxImages, lightboxIndex')
            /\ UNCHANGED showLightbox
  /\ UNCHANGED <<selectedReview, showModal, lightboxImages>>
  /\ UNCHANGED <<filterVars, reportVars, nonAdminVars>>

LightboxNext ==
  \/ OpenModal
  \/ CloseModal
  \/ OpenLightbox
  \/ CloseLightbox
  \/ NextImage
  \/ PrevImage
  \/ KeyDown

\* ------------------------------------------------------------------------
\* ComplianceForm: handleSubmit step by step (lines 700-851)

\* selections the form can hold when the submit button is pressed
Selections == {<<>>, <<PhotoA>>, <<PhotoA, PhotoB>>, <<PhotoB, PhotoA, PhotoA>>}

\* the previews of a selection whose reads ended in selection order
PreviewsOf(files) ==
  [i \in DOMAIN files |-> [url |-> <<"data", files[i].name>>, name |-> files[i].name]]

\* snapshot.bytesTransferred / snapshot.totalBytes, in percent
Progresses == {50, 100}

\* line 718, rounded down to whole percent: file i (from 0) of length files
OverallProgress(i, progress, length) == ((i * 100 + progress) * 100) \div (length * 100)

\* the loop of lines 706-734 is left after the first file
LoopEndsEarly(i, length) == TRUE

\* line 706: i < selectedFiles.length fails after file i
LoopEnds(i, length) == i + 1 = length

\* lines 759-765 without the catch
sendEmailNotificationUncaught(sent) == IF sent THEN Returned(TRUE) ELSE Threw("EmailJS")

\* lines 759-765 of sendEmailNotification: emailjs.send resolved or rejected
sendEmailNotification(sent) == Returned(sent)

\* lines 843-850 as seen by the form: the catch and the finally block
SubmitFails ==
  /\ formError' = SubmitErrorMessage
  /\ submitting' = FALSE
  /\ uploadProgress' = 0
  /\ submitCall' = NoSubmitCall

\* lines 795-850: success shown, form reset, the finally block
SubmitSucceeds ==
  /\ success' = TRUE
  /\ formData' = BlankForm
  /\ selectedFiles' = <<>>
  /\ imagePreviews' = <<>>
  /\ hideTimers' = hideTimers + 1
  /\ submitting' = FALSE
  /\ uploadProgress' = 0
  /\ submitCall' = NoSubmitCall

\* the record of lines 780-786 for the URLs collected
RecordOf(call, urls) == SubmitData(urls, call.user)

\* handleInputChange, lines 627-633
HandleInputChange ==
  /\ view = "ComplianceForm"
  /\ formData' \in {EnteredForm, BlankForm}
  /\ UNCHANGED <<uploading, uploadProgress, success, submitting, hideTimers, outbox,
                 configured, submitCall>>
  /\ UNCHANGED <<appVars, nonFormVars>>

\* the submit button, enabled while not submitting (line 1217), with the
\* required fields filled in (lines 941-970): handleSubmit up to the first
\* await, lines 769-777 and 700-713
SubmitClick ==
  /\ view = "ComplianceForm"
  /\ ~submitting
  /\ formData # BlankForm
  /\ Len(store) < MaxSubmissions
  /\ success' = FALSE
  /\ formError' = ""
  /\ submitting' = TRUE
  /\ IF selectedFiles = <<>>
     THEN /\ submitCall' = [pc |-> "write", files |-> <<>>, user |-> currentUser,
                            urls |-> <<>>, i |-> 0]
          /\ UNCHANGED uploading
     ELSE /\ submitCall' = [pc |-> "upload", files |-> selectedFiles, user |-> currentUser,
                            urls |-> <<>>, i |-> 0]
          /\ uploading' = TRUE
  /\ UNCHANGED <<formData, uploadProgress, hideTimers, outbox, configured>>
  /\ UNCHANGED <<routeVars, selectedFiles, imagePreviews, pendingReads, errorTimer,
                 submission, store>>
  /\ UNCHANGED nonFormVars

\* the state_changed observer of the upload in progress, lines 716-720
UploadProgress ==
  /\ submitCall.pc = "upload"
  /\ \E progress \in Progresses :
       uploadProgress' = OverallProgress(submitCall.i, progress, Len(submitCall.files))
  /\ UNCHANGED <<formData, uploading, success, submitting, hideTimers, outbox, configured,
                 submitCall>>
  /\ UNCHANGED <<appVars, nonFormVars>>

\* the upload in progress completes and getDownloadURL resolves, lines
\* 722-729; after the last file, lines 736-737
UploadDone ==
  /\ submitCall.pc = "upload"
  /\ LET urls == Append(submitCall.urls, UploadedURLs(submitCall.files)[submitCall.i + 1])
     IN  IF LoopEnds(submitCall.i, Len(submitCall.files))
         THEN /\ uploading' = FALSE
              /\ submitCall' = [submitCall EXCEPT !.pc = "write", !.urls = urls]
         ELSE /\ submitCall' = [submitCall EXCEPT !.i = @ + 1, !.urls = urls]
              /\ UNCHANGED uploading
  /\ UNCHANGED <<formData, uploadProgress, success, submitting, hideTimers, outbox,
                 configured>>
  /\ UNCHANGED <<appVars, nonFormVars>>

\* the upload in progress fails: reject, rethrown at line 733, caught at 843
UploadFails ==
  /\ submitCall.pc = "upload"
  /\ SubmitFails
  /\ UNCHANGED <<formData, uploading, success, hideTimers, outbox, configured>>
  /\ UNCHANGED <<routeVars, selectedFiles, imagePreviews, pendingReads, errorTimer,
                 submission, store>>
  /\ UNCHANGED nonFormVars

\* addDoc resolves, line 789; without a key sendEmailNotification returns
\* false at once (lines 741-744) and handleSubmit goes on to line 795
WriteDone ==
  /\ submitCall.pc = "write"
  /\ store' = Append(store, RecordOf(submitCall, submitCall.urls))
  /\ IF configured
     THEN /\ submitCall' = [submitCall EXCEPT !.pc = "email"]
          /\ UNCHANGED <<formData, success, submitting, uploadProgress, hideTimers,
                         selectedFiles, imagePreviews>>
     ELSE SubmitSucceeds
  /\ UNCHANGED <<uploading, outbox, configured>>
  /\ UNCHANGED <<routeVars, pendingReads, formError, errorTimer, submission>>
  /\ UNCHANGED nonFormVars

\* addDoc rejects, line 789
WriteFails ==
  /\ submitCall.pc = "write"
  /\ SubmitFails
  /\ UNCHANGED <<formData, uploading, success, hideTimers, outbox, configured>>
  /\ UNCHANGED <<routeVars, selectedFiles, imagePreviews, pendingReads, errorTimer,
                 submission, store>>
  /\ UNCHANGED nonFormVars

\* emailjs.send settles, line 760, and handleSubmit goes on from line 792
EmailSettles ==
  /\ submitCall.pc = "email"
  /\ \E sent \in BOOLEAN :
       /\ outbox' = IF sent THEN Append(outbox, store[Len(store)]) ELSE outbox
       /\ IF sendEmailNotification(sent).kind = "returned"
          THEN /\ SubmitSucceeds
               /\ UNCHANGED formError
          ELSE /\ SubmitFails
               /\ UNCHANGED <<formData, success, hideTimers, selectedFiles, imagePreviews>>
  /\ UNCHANGED <<uploading, configured>>
  /\ UNCHANGED <<routeVars, pendingReads, errorTimer, submission, store>>
  /\ UNCHANGED nonFormVars

\* setTimeout(() => setSuccess(false), 5000), line 841
HideSuccess ==
  /\ hideTimers > 0
  /\ hideTimers' = hideTimers - 1
  /\ success' = FALSE
  /\ UNCHANGED <<formData, uploading, uploadProgress, submitting, outbox, configured,
                 submitCall>>
  /\ UNCHANGED <<appVars, nonFormVars>>

SubmitNext ==
  \/ HandleInputChange
  \/ RemoveImage
  \/ SubmitClick
  \/ UploadProgress
  \/ UploadDone
  \/ UploadFails
  \/ WriteDone
  \/ WriteFails
  \/ EmailSettles
  \/ HideSuccess

\* ------------------------------------------------------------------------
\* Login: handleSubmit step by step (Login.jsx lines 14-46)

\* what setEmail and setPassword are given
Emails == {"", "inspector", "inspector@stvha.org"}

Passwords == {"", "secret"}

\* the most signIn calls followed
MaxSignIns == 2

\* how signIn settles: resolved, or rejected with error.code
SignInOutcomes ==
  {"resolved", "auth/user-not-found", "auth/wrong-password", "auth/invalid-email",
   "auth/too-many-requests", "auth/network-request-failed"}

MissingCredentialsMessage == "Please enter both email and password"

\* lines 27-42; error.message for the codes without a case
SignInErrorMessage(code) ==
  IF code \in {"auth/user-not-found", "auth/wrong-password"}
  THEN "Failed to sign in. Invalid email or password."
  ELSE IF code = "auth/invalid-email"
  THEN "Failed to sign in. Invalid email format."
  ELSE IF code = "auth/too-many-requests"
  THEN "Failed to sign in. Too many failed attempts. Try again later."
  ELSE "Failed to sign in. Firebase: Error (auth/network-request-failed)."

\* navigate('/form') placed after the try statement
NavigatesAlways(outcome) == TRUE

\* line 25 is reached when the await of line 24 does not throw
Navigates(outcome) == outcome = "resolved"

\* onChange of the email input, line 91; disabled while loading (line 93)
SetEmail ==
  /\ view = "Login"
  /\ ~loginLoading
  /\ email' \in Emails
  /\ UNCHANGED <<password, loginLoading, signIns>>
  /\ UNCHANGED <<appVars, reportVars, downloadVars, callVars, adminVars, submitVars,
                 hookVars>>

\* onChange of the password input, line 102; disabled while loading (line 104)
SetPassword ==
  /\ view = "Login"
  /\ ~loginLoading
  /\ password' \in Passwords
  /\ UNCHANGED <<email, loginLoading, signIns>>
  /\ UNCHANGED <<appVars, reportVars, downloadVars, callVars, adminVars, submitVars,
                 hookVars>>

\* the submit button, disabled while loading (line 108): handleSubmit up to
\* its await, lines 14-24
LoginClick ==
  /\ view = "Login"
  /\ ~loginLoading
  /\ IF email = "" \/ password = ""
     THEN /\ loginError' = MissingCredentialsMessage
          /\ UNCHANGED <<loginLoading, signIns>>
     ELSE /\ Len(signIns) < MaxSignIns
          /\ loginError' = ""
          /\ loginLoading' = TRUE
          /\ signIns' = Append(signIns, [email |-> email, password |-> password,
                                         outcome |-> "pending", navigated |-> FALSE])
  /\ UNCHANGED <<email, password, currentUser, location, view>>
  /\ UNCHANGED <<formVars, reportVars, downloadVars, callVars, adminVars, submitVars,
                 hookVars>>

\* signIn settles, line 24, and handleSubmit runs to its end, lines 25-45;
\* a Login that the navigation unmounts loses its state
SignInSettles ==
  /\ view = "Login"
  /\ loginLoading
  /\ \E outcome \in SignInOutcomes :
       LET navigated == Navigates(outcome)
           user == IF outcome = "resolved" THEN Inspector ELSE currentUser
           newView == IF navigated THEN SettledView("/form", user) ELSE view
       IN  /\ signIns' = [signIns EXCEPT ![Len(signIns)] =
                            [@ EXCEPT !.outcome = IF outcome = "resolved"
                                                  THEN "resolved" ELSE "rejected",
                                      !.navigated = navigated]]
           /\ currentUser' = user
           /\ view' = newView
           /\ location' = IF navigated THEN SettledPath("/form", user) ELSE location
           /\ loginLoading' = FALSE
           /\ IF newView = "Login"
              THEN /\ loginError' = IF outcome = "resolved"
                                    THEN loginError
                                    ELSE SignInErrorMessage(outcome)
                   /\ UNCHANGED <<email, password>>
              ELSE /\ loginError' = ""
                   /\ email' = ""
                   /\ password' = ""
  /\ UNCHANGED <<formVars, reportVars, downloadVars, callVars, adminVars, submitVars,
                 hookVars>>

LoginNext ==
  \/ SetEmail
  \/ SetPassword
  \/ LoginClick
  \/ SignInSettles
  \/ HandleSignOut

\* ------------------------------------------------------------------------
\* useGoogleAutocomplete (useGoogleAutocomplete.js lines 8-70), called by
\* ComplianceForm with handleAddressSelected, a new function in every render
\* (AdminViewer.jsx lines 862-871), so the effect runs again after each render

\* the most renders of the form followed
MaxRenders == 4

\* the instances with the listeners of instance k removed
ListenersCleared(list, k) ==
  [j \in DOMAIN list |-> IF j = k THEN [list[j] EXCEPT !.listening = FALSE] ELSE list[j]]

\* what the cleanup returned by the last effect run does to the instances:
\* lines 62-66 clear the listeners of autocompleteRef.current, line 58 none
InstancesAfterCleanup ==
  IF effectCleanup = "clearListeners" /\ autocompleteRef # 0
  THEN ListenersCleared(instances, autocompleteRef)
  ELSE instances

\* initAutocomplete, lines 14-41, with the input mounted: a new instance
\* with a place_changed listener that calls the onPlaceSelected of the run
initAutocomplete(list, callback, by) ==
  Append(list, [listening |-> TRUE, callback |-> callback, by |-> by])

\* a render of the form, the first one included: the cleanup of the last
\* effect run, then the effect, lines 12-67
HookRender ==
  /\ hookRender < MaxRenders
  /\ hookRender' = hookRender + 1
  /\ IF mapsLoaded
     THEN /\ instances' = initAutocomplete(InstancesAfterCleanup, hookRender', "effect")
          /\ autocompleteRef' = Len(instances')
          /\ effectCleanup' = "clearListeners"
          /\ polling' = FALSE
          /\ pollTimeout' = FALSE
     ELSE /\ instances' = InstancesAfterCleanup
          /\ effectCleanup' = "clearInterval"
          /\ polling' = TRUE
          /\ pollTimeout' = TRUE
          /\ UNCHANGED autocompleteRef
  /\ UNCHANGED <<mapsLoaded, invoked>>
  /\ UNCHANGED <<reportVars, appVars, downloadVars, callVars, adminVars, submitVars,
                 loginVars>>

\* the form is unmounted: the cleanup of the last effect run; the refs go
\* with the component
HookUnmount ==
  /\ effectCleanup # "none"
  /\ instances' = InstancesAfterCleanup
  /\ autocompleteRef' = 0
  /\ effectCleanup' = "none"
  /\ polling' = FALSE
  /\ pollTimeout' = FALSE
  /\ UNCHANGED <<hookRender, mapsLoaded, invoked>>
  /\ UNCHANGED <<reportVars, appVars, downloadVars, callVars, adminVars, submitVars,
                 loginVars>>

\* the Google Maps script finishes loading
ScriptLoads ==
  /\ ~mapsLoaded
  /\ mapsLoaded' = TRUE
  /\ UNCHANGED <<hookRender, instances, autocompleteRef, effectCleanup, polling,
                 pollTimeout, invoked>>
  /\ UNCHANGED <<reportVars, appVars, downloadVars, callVars, adminVars, submitVars,
                 loginVars>>

\* the interval callback finds the script, lines 48-53
PollTick ==
  /\ polling
  /\ mapsLoaded
  /\ polling' = FALSE
  /\ instances' = initAutocomplete(instances, hookRender, "poll")
  /\ autocompleteRef' = Len(instances')
  /\ UNCHANGED <<hookRender, mapsLoaded, effectCleanup, pollTimeout, invoked>>
  /\ UNCHANGED <<reportVars, appVars, downloadVars, callVars, adminVars, submitVars,
                 loginVars>>

\* setTimeout(() => clearInterval(checkGoogleLoaded), 10000), line 56
PollExpires ==
  /\ pollTimeout
  /\ pollTimeout' = FALSE
  /\ polling' = FALSE
  /\ UNCHANGED <<hookRender, mapsLoaded, instances, autocompleteRef, effectCleanup,
                 invoked>>
  /\ UNCHANGED <<reportVars, appVars, downloadVars, callVars, adminVars, submitVars,
                 loginVars>>

\* the user picks a place offered by an instance whose listener is live,
\* lines 31-37: the listener calls the onPlaceSelected it closed over
PlaceSelected ==
  /\ \E k \in DOMAIN instances :
       /\ instances[k].listening
       /\ invoked' = <<[callback |-> instances[k].callback, current |-> hookRender]>>
  /\ UNCHANGED <<hookRender, mapsLoaded, instances, autocompleteRef, effectCleanup,
                 polling, pollTimeout>>
  /\ UNCHANGED <<reportVars, appVars, downloadVars, callVars, adminVars, submitVars,
                 loginVars>>

HookNext ==
  \/ HookRender
  \/ HookUnmount
  \/ ScriptLoads
  \/ PollTick
  \/ PollExpires
  \/ PlaceSelected

ReportNext == GenerateReport \/ RenderHTML \/ RenderText \/ RenderDocument

Next == ReportNext

RepeatNext ==
  \/ GenerateReport
  \/ RenderHTML
  \/ RenderText
  \/ RenderDocument
  \/ Tick
  \/ RepeatGenerate
  \/ RepeatHTML
  \/ RepeatText
  \/ RepeatDocument

Spec == Init /\ [][Next]_vars

SpecFields == InitFields /\ [][Next]_vars

\* the same calls made twice, at the same or at different times
SpecRepeat == InitRepeat /\ [][RepeatNext]_vars

\* a visitor of the application: routes, sign-in, photo selection, submission
SpecApp == InitVisitor /\ [][AppNext]_vars

\* photo probing and the document download
SpecDownload == InitRepeat /\ [][DownloadNext]_vars

\* the inspector at the form, nothing selected yet
InitInspector ==
  /\ allReviews = <<>>
  /\ InitReport
  /\ currentUser = Inspector
  /\ location = "/form"
  /\ view = "ComplianceForm"
  /\ loginError = ""
  /\ InitForm
  /\ submission = NotSubmitting
  /\ store = <<>>
  /\ InitDownload
  /\ InitCalls
  /\ InitExtra

SpecPreviews == InitInspector /\ [][PreviewNext]_vars

SpecLogin == InitVisitor /\ [][LoginNext]_vars

\* the form about to be rendered, the Google Maps script loaded or not yet
InitAutocomplete ==
  /\ allReviews = <<>>
  /\ InitReport
  /\ currentUser = Inspector
  /\ location = "/form"
  /\ view = "ComplianceForm"
  /\ loginError = ""
  /\ InitForm
  /\ submission = NotSubmitting
  /\ store = <<>>
  /\ InitDownload
  /\ InitCalls
  /\ InitAdmin
  /\ InitSubmitForm
  /\ configured = FALSE
  /\ InitLogin
  /\ InitHook
  /\ mapsLoaded \in BOOLEAN

SpecAutocomplete == InitAutocomplete /\ [][HookNext]_vars

\* the inspector at the form with images selected and read
InitSubmit ==
  /\ allReviews = <<>>
  /\ InitReport
  /\ currentUser = Inspector
  /\ location = "/form"
  /\ view = "ComplianceForm"
  /\ loginError = ""
  /\ selectedFiles \in Selections
  /\ imagePreviews = PreviewsOf(selectedFiles)
  /\ pendingReads = <<>>
  /\ formError = ""
  /\ errorTimer = FALSE
  /\ submission = NotSubmitting
  /\ store = <<>>
  /\ InitDownload
  /\ InitCalls
  /\ InitAdmin
  /\ InitSubmitForm
  /\ configured \in BOOLEAN
  /\ InitElsewhere

SpecSubmit == InitSubmit /\ [][SubmitNext]_vars

\* the admin viewer, opened at /admin: loading and filtering
InitAdminViewer ==
  /\ allReviews = <<>>
  /\ InitReport
  /\ currentUser \in {NULL, Inspector}
  /\ location = "/admin"
  /\ view = "AdminViewer"
  /\ loginError = ""
  /\ InitForm
  /\ submission = NotSubmitting
  /\ store = <<>>
  /\ InitDownload
  /\ InitCalls
  /\ InitExtra

SpecAdmin == InitAdminViewer /\ [][AdminNext]_vars

\* the admin viewer with its reviews loaded and shown unfiltered
InitLightbox ==
  /\ allReviews \in StoredLists
  /\ InitReport
  /\ currentUser \in {NULL, Inspector}
  /\ location = "/admin"
  /\ view = "AdminViewer"
  /\ loginError = ""
  /\ InitForm
  /\ submission = NotSubmitting
  /\ store = <<>>
  /\ InitDownload
  /\ InitCalls
  /\ filters = NoFilters
  /\ filteredReviews = allReviews
  /\ loading = FALSE
  /\ filterEffect = FALSE
  /\ selectedReview = NULL
  /\ showModal = FALSE
  /\ lightboxImages = <<>>
  /\ lightboxIndex = 0
  /\ showLightbox = FALSE
  /\ keyHandler = [showLightbox |-> FALSE, lightboxImages |-> <<>>]
  /\ InitSubmitForm
  /\ configured = FALSE
  /\ InitElsewhere

SpecLightbox == InitLightbox /\ [][LightboxNext]_vars

\* two report generations interleaved at their awaits
SpecConcurrent == InitConcurrent /\ [][ConcurrentNext]_vars

\* ------------------------------------------------------------------------
\* Properties of generateComplianceReport

Generated == reportData.kind = "returned"

\* the positions in INSPECTION_ITEMS of the fields of a record that hold a
\* non-empty value other than 'accept' and 'na'
ViolatingFields(r) ==
  {k \in DOMAIN INSPECTION_ITEMS :
     /\ INSPECTION_ITEMS[k].key \in DOMAIN r
     /\ r[INSPECTION_ITEMS[k].key] \notin {"", "accept", "na"}}

ViolatingRecords == {i \in DOMAIN allReviews : ViolatingFields(allReviews[i]) # {}}

\* the address a group of record r carries
ExpectedAddress(r) ==
  IF "propertyAddress" \in DOMAIN r /\ r.propertyAddress # <<>>
  THEN r.propertyAddress ELSE AddressNotProvided

\* group g is a group of record r: same address, and entries for r's violating fields
GroupOf(g, r) ==
  /\ g.address = ExpectedAddress(r)
  /\ {g.nonCompliantItems[e].item : e \in DOMAIN g.nonCompliantItems}
       = {INSPECTION_ITEMS[k].label : k \in ViolatingFields(r)}

\* the ways of pairing the groups of the report one to one with the violating records
Pairings(groups) ==
  {f \in [DOMAIN groups -> ViolatingRecords] :
     \A p, q \in DOMAIN groups : p # q => f[p] # f[q]}

\* C1: the report holds exactly one group for each input record that has a
\* checklist field with a non-empty value other than 'accept' and 'na', and no
\* group for any other record, whatever the other attributes of a record say
C1_ExactlyViolatingRecords ==
  Generated =>
    /\ Len(reportData.value) = Cardinality(ViolatingRecords)
    /\ \E f \in Pairings(reportData.value) :
         \A j \in DOMAIN reportData.value : GroupOf(reportData.value[j], allReviews[f[j]])

\* a report that kept one record and dropped a fully compliant record which has
\* comments, photos and a violation notice
C1_Witness ==
  /\ Generated
  /\ Len(reportData.value) = 1
  /\ \E i \in DOMAIN allReviews :
       /\ ViolatingFields(allReviews[i]) = {}
       /\ Get(allReviews[i], "detailedComments") # UNDEFINED
       /\ Get(allReviews[i], "violationNotice") = "yes"
       /\ "images" \in DOMAIN allReviews[i]

\* s <= t for the lower-cased strings, letter by letter in the order of the
\* locale-aware comparison (space, digits, letters)
LowerCaseLeq(s, t) ==
  CompareFrom(Weights(PrimaryWeight, toLowerCase(s)),
              Weights(PrimaryWeight, toLowerCase(t)), 1) <= 0

\* C2: consecutive groups of the report are in ascending case-insensitive order
\* of their address, whatever the order of the input; the fallback address
\* is ordered like any other
C2_SortedByAddress ==
  Generated =>
    \A j \in DOMAIN reportData.value :
      j < Len(reportData.value) =>
        LowerCaseLeq(reportData.value[j].address, reportData.value[j + 1].address)

\* a report whose groups had to be reordered, one of them with the fallback address
C2_Witness ==
  /\ Generated
  /\ Len(reportData.value) = 2
  /\ reportData.value # Collect(allReviews)
  /\ reportData.value[1].address = AddressNotProvided
  /\ reportData.value[2].address = <<"B">>

WithAddress(groups, a) == SelectSeq(groups, LAMBDA g : g.address = a)

C4_OneEntryPerViolation ==
  Generated =>
    \E f \in Pairings(reportData.value) :
      \A j \in DOMAIN reportData.value :
        LET g == reportData.value[j]
            r == allReviews[f[j]]
        IN  /\ GroupOf(g, r)
            /\ Len(g.nonCompliantItems) = Cardinality(ViolatingFields(r))
            /\ \A e \in DOMAIN g.nonCompliantItems :
                 \E k \in ViolatingFields(r) :
                   /\ g.nonCompliantItems[e].item = INSPECTION_ITEMS[k].label
                   /\ g.nonCompliantItems[e].severity \in {"Major", "Minor"}
                   /\ g.nonCompliantItems[e].severity = "Major"
                        <=> r[INSPECTION_ITEMS[k].key] = "major"

\* a record with one 'major' and one 'minor' field gave a group of two entries
C4_Witness ==
  /\ Generated
  /\ \E j \in DOMAIN reportData.value :
       /\ Len(reportData.value[j].nonCompliantItems) = 2
       /\ reportData.value[j].nonCompliantItems[1].severity = "Minor"
       /\ reportData.value[j].nonCompliantItems[1].status = "minor"
       /\ reportData.value[j].nonCompliantItems[2].severity = "Major"
       /\ reportData.value[j].nonCompliantItems[2].status = "major"

KnownTokens == {"accept", "minor", "major", "na"}

\* the fields of a record that hold a non-empty value outside the four tokens
UnknownFields(r) ==
  {k \in DOMAIN INSPECTION_ITEMS :
     /\ INSPECTION_ITEMS[k].key \in DOMAIN r
     /\ r[INSPECTION_ITEMS[k].key] \notin KnownTokens \cup {""}}

C6_NoEntryFromUnknownToken ==
  Generated =>
    \A j \in DOMAIN reportData.value :
      \A e \in DOMAIN reportData.value[j].nonCompliantItems :
        reportData.value[j].nonCompliantItems[e].status \in KnownTokens

\* ------------------------------------------------------------------------
\* Properties of the renderers

NoViolationsOutput(out) ==
  /\ out.kind = "returned"
  /\ out.value.empty
  /\ out.value.message = "No properties with violations found."

EmptyReport == Generated /\ Len(reportData.value) = 0

Absent(r, key) == key \notin DOMAIN r \/ r[key] = EmptyAttributes[key]

\* the attribute when it is there, the fallback when it is absent
ValueOr(r, key, fallback) == IF Absent(r, key) THEN fallback ELSE r[key]

\* C8: a group copies address, review team, submitted-by, compliance status and
\* review date from its record, and where the attribute is absent it carries
\* 'Address not provided', 'Unknown', 'Unknown', 'Not specified' and the
\* record's submission timestamp
C8_Fallbacks ==
  (Generated /\ Len(allReviews) = 1) =>
    /\ Len(reportData.value) = 1
    /\ LET r == allReviews[1]
           g == reportData.value[1]
       IN  /\ g.address = ValueOr(r, "propertyAddress", AddressNotProvided)
           /\ g.reviewTeam = ValueOr(r, "reviewTeam", "Unknown")
           /\ g.submittedBy = ValueOr(r, "submittedBy", "Unknown")
           /\ g.complianceStatus = ValueOr(r, "complianceStatus", "Not specified")
           /\ g.reviewDate = ValueOr(r, "date", Get(r, "submittedAt"))

\* a record without address, team, submitter, status and review date, but with
\* a submission timestamp, gave a group that carries the fallbacks
C8_Witness ==
  /\ Generated
  /\ Len(allReviews) = 1
  /\ "submittedAt" \in DOMAIN allReviews[1]
  /\ DOMAIN allReviews[1] \cap
       {"propertyAddress", "reviewTeam", "submittedBy", "complianceStatus", "date"} = {}
  /\ reportData.value[1].address = AddressNotProvided
  /\ reportData.value[1].reviewTeam = "Unknown"
  /\ reportData.value[1].complianceStatus = "Not specified"
  /\ reportData.value[1].reviewDate = "2024-02-01T10:00:00.000Z"

\* C9: whatever attributes of a record are absent, generateComplianceReport,
\* formatReportAsHTML and formatReportAsText complete without throwing
C9_NoThrowOnAbsentData ==
  /\ reportData.kind # "threw"
  /\ html.kind # "threw"
  /\ text.kind # "threw"

\* a record with nothing but one checklist field has been aggregated and
\* rendered as HTML and as text
C9_Witness ==
  /\ Len(allReviews) = 2
  /\ DOMAIN allReviews[1] = {"doors"}
  /\ DOMAIN allReviews[2] = {"doors"}
  /\ Generated
  /\ Len(reportData.value) = 2
  /\ html.kind = "returned"
  /\ text.kind = "returned"
  /\ html.value.sections[1].reviewDate = "Invalid Date"

AllRendered ==
  /\ Generated
  /\ Len(reportData.value) > 0
  /\ html.kind = "returned"
  /\ text.kind = "returned"
  /\ doc.kind = "returned"

\* the groups of the report that have an entry of severity 'Major'
GroupsWithMajor ==
  {j \in DOMAIN reportData.value :
     \E e \in DOMAIN reportData.value[j].nonCompliantItems :
       reportData.value[j].nonCompliantItems[e].severity = "Major"}

\* C10: on a non-empty report the three renderers show the same total of
\* properties (the number of groups), of violations (the sum of the groups'
\* entries), of properties with major issues (the groups with a major entry)
\* and of properties with photos; HTML and text also show the same number of
\* violation notices sent
C10_SameSummaryNumbers ==
  AllRendered =>
    LET h == html.value.summary
        t == text.value.summary
        d == doc.value.summary
    IN  /\ h.totalProperties = Len(reportData.value)
        /\ h.totalViolations = SumViolations(reportData.value, 1)
        /\ h.majorIssues = Cardinality(GroupsWithMajor)
        /\ \A n \in {"totalProperties", "totalViolations", "majorIssues", "withPhotos"} :
             h[n] = t[n] /\ t[n] = d[n]
        /\ h.noticesSent = t.noticesSent
        /\ html.value.total = h.totalProperties
        /\ text.value.total = h.totalProperties
        /\ doc.value.total = h.totalProperties

\* two groups rendered three times, one of them with photos but no photo count,
\* one with a major issue, one with a notice sent
C10_Witness ==
  /\ AllRendered
  /\ Len(reportData.value) = 2
  /\ doc.value.summary.withPhotos = 1
  /\ \E j \in DOMAIN reportData.value :
       Len(reportData.value[j].images) > 0 /\ reportData.value[j].imageCount = 0
  /\ html.value.summary.majorIssues = 1
  /\ text.value.summary.noticesSent = 1
  /\ html.value.summary.totalViolations = 3

\* the groups of the report whose photo-reference list is non-empty
GroupsWithPhotos ==
  {j \in DOMAIN reportData.value : Len(reportData.value[j].images) > 0}

\* C11: in every rendered report the 'properties with photos' number is the
\* number of groups whose photo-reference list is non-empty, and the photo
\* count of a group is the length of its photo-reference list
C11_PhotosCountedFromList ==
  (Generated /\ Len(reportData.value) > 0) =>
    /\ \A j \in DOMAIN reportData.value :
         reportData.value[j].imageCount = Len(reportData.value[j].images)
    /\ html.kind = "returned" => html.value.summary.withPhotos = Cardinality(GroupsWithPhotos)
    /\ text.kind = "returned" => text.value.summary.withPhotos = Cardinality(GroupsWithPhotos)
    /\ doc.kind = "returned" => doc.value.summary.withPhotos = Cardinality(GroupsWithPhotos)

\* the sections of a rendered report that show the follow-up block
WithFollowUp(out) == {j \in DOMAIN out.value.sections : out.value.sections[j].followUp # <<>>}

\* the groups of the report that say a violation notice was sent
GroupsWithNotice == {j \in DOMAIN reportData.value : reportData.value[j].violationNotice}

\* the violating records whose violationNotice is 'yes'
RecordsWithNotice ==
  {i \in ViolatingRecords : Get(allReviews[i], "violationNotice") = "yes"}

\* C18: each renderer shows the follow-up block of a group exactly when the
\* source record's violationNotice is 'yes', whatever dates the record has, and
\* 'notices sent' in the HTML and text summary counts the groups with the block
C18_FollowUpOnlyWhenNoticeSent ==
  (Generated /\ Len(reportData.value) > 0) =>
    /\ Cardinality(GroupsWithNotice) = Cardinality(RecordsWithNotice)
    /\ Len(allReviews) = 1 =>
         (reportData.value[1].violationNotice
            <=> Get(allReviews[1], "violationNotice") = "yes")
    /\ html.kind = "returned" =>
         /\ WithFollowUp(html) = GroupsWithNotice
         /\ html.value.summary.noticesSent = Cardinality(WithFollowUp(html))
    /\ text.kind = "returned" =>
         /\ WithFollowUp(text) = GroupsWithNotice
         /\ text.value.summary.noticesSent = Cardinality(WithFollowUp(text))
    /\ doc.kind = "returned" => WithFollowUp(doc) = GroupsWithNotice

\* a record with the three follow-up dates and no notice sent, rendered three
\* times without the block
C18_Witness ==
  /\ Generated
  /\ Len(allReviews) = 1
  /\ "violationNotice" \notin DOMAIN allReviews[1]
  /\ {"violationNoticeDate", "complianceDeadline", "reinspectionDate"} \subseteq DOMAIN allReviews[1]
  /\ Len(reportData.value) = 1
  /\ html.kind = "returned" /\ WithFollowUp(html) = {}
  /\ text.kind = "returned" /\ WithFollowUp(text) = {}
  /\ doc.kind = "returned" /\ WithFollowUp(doc) = {}
  /\ html.value.summary.noticesSent = 0

\* the position in INSPECTION_ITEMS of the field with this label
FieldIndex(label) == CHOOSE k \in DOMAIN INSPECTION_ITEMS : INSPECTION_ITEMS[k].label = label

\* the entries of a group are in the order of INSPECTION_ITEMS
InFieldOrder(labels) ==
  \A p, q \in DOMAIN labels : p < q => FieldIndex(labels[p]) < FieldIndex(labels[q])

WithSeverity(g, sev) == Labels(SelectSeq(g.nonCompliantItems, LAMBDA it : it.severity = sev))

\* the Major sublist and the Minor sublist of every section are the group's
\* Major entries and its Minor entries, in the order of the group
ShowsMajorThenMinor(out) ==
  out.kind = "returned" =>
    \A j \in DOMAIN out.value.sections :
      /\ out.value.sections[j].majorIssues = WithSeverity(reportData.value[j], "Major")
      /\ out.value.sections[j].minorIssues = WithSeverity(reportData.value[j], "Minor")

\* C19: the entries of a group are in the order of the field list, and every
\* renderer shows the group's Major entries and then its Minor entries, each
\* sublist in that order
C19_MajorThenMinorInFieldOrder ==
  (Generated /\ Len(reportData.value) > 0) =>
    /\ \A j \in DOMAIN reportData.value :
         InFieldOrder(Labels(reportData.value[j].nonCompliantItems))
    /\ ShowsMajorThenMinor(html)
    /\ ShowsMajorThenMinor(text)
    /\ ShowsMajorThenMinor(doc)

\* the same for reports in which every entry comes from 'minor' or 'major'
C19_HoldsForKnownTokens ==
  (Generated /\ C6_NoEntryFromUnknownToken) => C19_MajorThenMinorInFieldOrder

\* ------------------------------------------------------------------------
\* Calls made twice

RendererNames == {"html", "text", "doc"}

\* the latest completion of the named renderer
OutputOf(name) ==
  IF name = "html" THEN html ELSE IF name = "text" THEN text ELSE doc

\* a completion with its generation timestamp blanked
WithoutTimestamp(out) ==
  IF out.kind = "returned" /\ ~out.value.empty
  THEN Returned([out.value EXCEPT !.generated = 0])
  ELSE out

\* the list the renderers are given is still what generateComplianceReport built
ListUnmodified ==
  reportData.kind # "none" => reportData = generateComplianceReport(allReviews)

C12_RoutesProtected ==
  currentUser = NULL => view \notin {"ComplianceForm", "AdminViewer"}

\* the part of C12 about /form: the form is rendered for a signed-in user only
FormRouteProtected == currentUser = NULL => view # "ComplianceForm"

\* C13: the form never holds more than 10 selected images, and no stored
\* record carries more than 10 photo references.
C13_AtMostTenPhotos ==
  /\ Len(selectedFiles) <= 10
  /\ \A i \in DOMAIN store :
       /\ Len(store[i].images) <= 10
       /\ store[i].imageCount = Len(store[i].images)

\* ten photos were submitted, ten more selected, and a further selection refused
C13_Witness ==
  /\ Len(selectedFiles) = 10
  /\ formError = MaxImagesMessage
  /\ \E i \in DOMAIN store : Len(store[i].images) = 10

\* ------------------------------------------------------------------------
\* Photo probing and the document download

\* the link entries of the document section of group j
LinksOf(j) ==
  IF doc.value.sections[j].photos = <<>> THEN <<>>
  ELSE [n \in DOMAIN doc.value.sections[j].photos[1].links |->
          doc.value.sections[j].photos[1].links[n].link]

DownloadSteps == {"generate", "pack", "save"}

\* C15: when a step of downloadViolationsDocument fails, the call rejects
\* with that same error and does not return true; no step is attempted more
\* than once per call; true is returned only after the save step was invoked.
C15_ErrorSurfacesNoRetry ==
  /\ \A step \in DownloadSteps : download.attempts[step] <= 1
  /\ download.raised # NULL => download.result = Threw(download.raised)
  /\ download.result.kind = "returned" =>
       /\ download.result.value = TRUE
       /\ download.raised = NULL
       /\ \A step \in DownloadSteps : download.attempts[step] = 1

\* packing failed: the call rejected with that error and never reached saveAs
C15_Witness ==
  /\ download.raised = "Packer.toBlob failed"
  /\ download.result.kind = "threw"
  /\ download.attempts = [generate |-> 1, pack |-> 1, save |-> 0]

\* ------------------------------------------------------------------------
\* Two report generations at the same time

\* the array objects the groups of call c refer to
ArraysOfCall(c) ==
  IF calls[c].groups.kind # "returned" THEN {}
  ELSE {calls[c].groups.value[j].images[1] :
          j \in {k \in DOMAIN calls[c].groups.value :
                   /\ Len(calls[c].groups.value[k].images) = 1
                   /\ calls[c].groups.value[k].images[1] \in DOMAIN heap}}

\* the array objects the records of a list refer to
ArraysOfInput(list) ==
  {list[i].images[1] : i \in {k \in DOMAIN list : "images" \in DOMAIN list[k]}}

\* the groups and the document a call on that list yields when it runs alone
Alone(list) ==
  LET report == generateComplianceReport(list) IN
    [groups |-> report,
     document |-> IF report.kind = "returned"
                  THEN generateViolationLettersDocument(Dereferenced(report.value, InitialHeap))
                  ELSE NotCalled]

\* each call yields what it would yield alone, and nothing was written to the arrays
ResultsAsAlone ==
  /\ heap = InitialHeap
  /\ \A c \in Calls :
       calls[c].pc # "start" =>
         /\ calls[c].groups = Alone(inputs[c]).groups
         /\ calls[c].document = Alone(inputs[c]).document

\* C20: two concurrent report generations each produce the result they would
\* produce alone, nothing shared is written, and no group or part of one is
\* shared between the calls or with the input records.
C20_CallsShareNothing ==
  /\ ResultsAsAlone
  /\ \A c \in Calls : ArraysOfCall(c) \cap ArraysOfInput(inputs[c]) = {}
  /\ ArraysOfCall(1) \cap ArraysOfCall(2) = {}

\* ------------------------------------------------------------------------
\* The sublists against the violation count

\* the Major and Minor sublists of every section together hold as many
\* entries as the section's 'Violations Found' count, which is the number of
\* entries of the group
SublistsCoverCount(out) ==
  out.kind = "returned" =>
    \A j \in DOMAIN out.value.sections :
      /\ out.value.sections[j].violationsFound = Len(reportData.value[j].nonCompliantItems)
      /\ Len(out.value.sections[j].majorIssues) + Len(out.value.sections[j].minorIssues)
           = out.value.sections[j].violationsFound
      /\ \A e \in DOMAIN reportData.value[j].nonCompliantItems :
           LET label == reportData.value[j].nonCompliantItems[e].item IN
             (\E n \in DOMAIN out.value.sections[j].majorIssues :
                out.value.sections[j].majorIssues[n] = label)
               # (\E n \in DOMAIN out.value.sections[j].minorIssues :
                    out.value.sections[j].minorIssues[n] = label)

\* C23: in every renderer each entry of a group is listed under exactly one
\* of Major and Minor, and the two sublists together hold as many entries as
\* the 'Violations Found' count of the group, which is what the group adds to
\* 'Total Violations Found'.
C23_EachEntryInOneSublist ==
  (Generated /\ Len(reportData.value) > 0) =>
    /\ SublistsCoverCount(html)
    /\ SublistsCoverCount(text)
    /\ SublistsCoverCount(doc)

\* the same for reports in which every entry comes from 'minor' or 'major'
C23_HoldsForKnownTokens ==
  (/\ Generated
   /\ \A j \in DOMAIN reportData.value :
        \A e \in DOMAIN reportData.value[j].nonCompliantItems :
          reportData.value[j].nonCompliantItems[e].status \in {"minor", "major"})
    => C23_EachEntryInOneSublist

\* ------------------------------------------------------------------------
\* C21

\* the record satisfies every filter that is not empty
SatisfiesFilters(r, f) ==
  /\ f.address # <<>> =>
       /\ "propertyAddress" \in DOMAIN r
       /\ Includes(toLowerCase(r.propertyAddress), toLowerCase(f.address))
  /\ f.team # <<>> =>
       /\ "reviewTeam" \in DOMAIN r
       /\ Includes(toLowerCase(r.reviewTeam), toLowerCase(f.team))
  /\ f.dateFrom # "" =>
       /\ "date" \in DOMAIN r
       /\ DateValue(r.date) # NaN
       /\ DateValue(r.date) >= DateValue(f.dateFrom)
  /\ f.dateTo # "" =>
       /\ "date" \in DOMAIN r
       /\ DateValue(r.date) # NaN
       /\ DateValue(r.date) <= DateValue(f.dateTo)
  /\ f.status # "" =>
       /\ "complianceStatus" \in DOMAIN r
       /\ r.complianceStatus = f.status
  /\ f.hasImages = "yes" => ("images" \in DOMAIN r /\ Len(r.images) > 0)
  /\ f.hasImages = "no" => ("images" \notin DOMAIN r \/ Len(r.images) = 0)

\* C21: once the filter effect has run, filteredReviews is the subsequence
\* of allReviews, in order, of the records that satisfy every non-empty
\* filter; with all filters empty it is allReviews; and the number of
\* reviews shown never exceeds the total.
C21_FilteredIsTheMatchingSubsequence ==
  /\ ~filterEffect =>
       /\ filteredReviews = SelectSeq(allReviews, LAMBDA r : SatisfiesFilters(r, filters))
       /\ filters = NoFilters => filteredReviews = allReviews
  /\ Len(filteredReviews) <= Len(allReviews)

\* the date-to filter set to the date of a loaded review, which is kept,
\* while other reviews are filtered out
C21_Witness ==
  /\ ~filterEffect
  /\ ~loading
  /\ filters.dateTo = "2024-01-15"
  /\ filters.address # <<>>
  /\ Len(filteredReviews) > 0
  /\ Len(filteredReviews) < Len(allReviews)
  /\ \E i \in DOMAIN filteredReviews : Get(filteredReviews[i], "date") = "2024-01-15"

\* ------------------------------------------------------------------------
\* C22

\* the index shown is an index of the image list
ValidLightboxIndex == 0 <= lightboxIndex /\ lightboxIndex < Len(lightboxImages)

\* next and previous wrap around at the ends and undo each other
WrapAndUndo(i, n) ==
  /\ NextIndex(PrevIndex(i, n), n) = i
  /\ PrevIndex(NextIndex(i, n), n) = i
  /\ i = n - 1 => NextIndex(i, n) = 0
  /\ i < n - 1 => NextIndex(i, n) = i + 1
  /\ i = 0 => PrevIndex(i, n) = n - 1
  /\ i > 0 => PrevIndex(i, n) = i - 1

RefusingStep ==
  /\ formError' \in {MaxImagesMessage, TooLargeMessage}
  /\ formError' # formError

\* a step that adds to the selection
AddingStep == Len(selectedFiles') > Len(selectedFiles)

\* C28: a step of handleFiles that sets one of its two error messages leaves
\* the selected files, the previews and the reads in flight unchanged; a
\* step that adds files keeps the files selected before, adds only images
\* of at most 10 MB, ends with at most 10 files and sets no message.
C28_HandleFilesAllOrNothing ==
  [][/\ RefusingStep => UNCHANGED <<selectedFiles, imagePreviews, pendingReads>>
     /\ AddingStep =>
          /\ SubSeq(selectedFiles', 1, Len(selectedFiles)) = selectedFiles
          /\ \A i \in DOMAIN selectedFiles' :
               /\ IsImage(selectedFiles'[i])
               /\ selectedFiles'[i].size <= maxSize
          /\ Len(selectedFiles') <= maxFiles
          /\ UNCHANGED <<formError, imagePreviews>>]_vars

\* a batch was refused for the total while files were selected and being read
C28_Witness ==
  /\ formError = MaxImagesMessage
  /\ Len(selectedFiles) >= 8
  /\ Len(selectedFiles) <= maxFiles
  /\ pendingReads # <<>>

\* ------------------------------------------------------------------------
\* C26

\* the names in the order of the list
Names(list) == [i \in DOMAIN list |-> list[i].name]

\* C26: once all reads have completed, the preview list and the
\* selected-file list hold the same files at the same positions.
C26_PreviewsAligned ==
  pendingReads = <<>> => Names(imagePreviews) = Names(selectedFiles)

\* what stays true of the two lists: a preview or a read in flight per
\* selected file
C26_OnePreviewOrReadPerFile ==
  Len(selectedFiles) = Len(imagePreviews) + Len(pendingReads)

\* ------------------------------------------------------------------------
\* C24

\* a step in which addDoc stores the record
RecordWritten == Len(store') = Len(store) + 1

\* a step in which handleSubmit ends without the record written: an upload
\* or the write has failed
SubmitFailed ==
  /\ submitCall.pc \in {"upload", "write"}
  /\ submitCall'.pc = "idle"
  /\ ~RecordWritten

\* during the uploads the URLs collected are those of the first files of the
\* selection, in order
UploadsInOrder ==
  submitCall.pc = "upload" =>
    /\ submitCall.i < Len(submitCall.files)
    /\ submitCall.urls = SubSeq(UploadedURLs(submitCall.files), 1, submitCall.i)
    /\ uploading

\* C24: the record is written only after every file selected at the submit
\* has been uploaded, one at a time in selection order; its photo list holds
\* the upload URLs in that order and imageCount is the length of the list.
\* When an upload or the write fails no email is sent, success is not shown
\* and the form data and the selected files are left as they are.
C24_RecordAfterAllUploads ==
  /\ [](UploadsInOrder /\ Len(outbox) <= Len(store))
  /\ [][RecordWritten =>
          /\ submitCall.pc = "write"
          /\ submitCall.urls = UploadedURLs(submitCall.files)
          /\ store'[Len(store')].images = submitCall.urls
          /\ store'[Len(store')].imageCount = Len(submitCall.files)]_vars
  /\ [][SubmitFailed =>
          /\ formError' = SubmitErrorMessage
          /\ ~success'
          /\ UNCHANGED <<store, outbox, formData, selectedFiles, imagePreviews>>]_vars

\* a submission of three photos has gone through
C24_Witness ==
  /\ Len(store) = 1
  /\ store[1].imageCount = 3
  /\ store[1].images = UploadedURLs(<<PhotoB, PhotoA, PhotoA>>)
  /\ success
  /\ selectedFiles = <<>>

\* ------------------------------------------------------------------------
\* C25

\* C25: when no handleSubmit is in flight, submitting and uploading are
\* false and uploadProgress is 0.
C25_FlagsIdleAfterSubmit ==
  submitCall.pc = "idle" => (~submitting /\ ~uploading /\ uploadProgress = 0)

\* what the finally block does reset
C25_SubmittingAndProgressReset ==
  submitCall.pc = "idle" => (~submitting /\ uploadProgress = 0)

\* ------------------------------------------------------------------------
\* C27

\* a step in which handleSubmit ends after the record was written
EndsAfterWrite ==
  \/ submitCall.pc = "email" /\ submitCall'.pc = "idle"
  \/ submitCall.pc = "write" /\ submitCall'.pc = "idle" /\ RecordWritten

\* C27: once the record is written, handleSubmit ends with the success
\* message shown and the form and the selected files reset, without an
\* error message, whether the email was sent, failed or was not configured.
C27_EmailFailureNeverFailsSubmit ==
  [][EndsAfterWrite =>
       /\ success'
       /\ formData' = BlankForm
       /\ selectedFiles' = <<>>
       /\ imagePreviews' = <<>>
       /\ UNCHANGED formError
       /\ ~submitting']_vars

\* success is shown for a stored record whose email EmailJS did not accept
C27_Witness ==
  /\ configured
  /\ success
  /\ Len(store) = 1
  /\ outbox = <<>>
  /\ formData = BlankForm

\* ------------------------------------------------------------------------
\* C29

\* a step in which a signIn call settles
SignInSettled ==
  /\ Len(signIns) > 0
  /\ Len(signIns') = Len(signIns)
  /\ signIns[Len(signIns)].outcome = "pending"
  /\ signIns'[Len(signIns)].outcome # "pending"

\* C29: signIn is never invoked with an empty email or password, and a
\* submit with either empty sets an error message; navigate('/form') is
\* called only for a signIn that resolved; when handleSubmit has finished
\* after calling signIn loading is false and, after a rejection, a
\* non-empty error message is set.
C29_LoginHandleSubmit ==
  /\ [](\A k \in DOMAIN signIns :
          /\ signIns[k].email # ""
          /\ signIns[k].password # ""
          /\ signIns[k].navigated => signIns[k].outcome = "resolved"
          /\ signIns[k].outcome # "pending" => (k < Len(signIns) \/ ~loginLoading))
  /\ [][(view = "Login" /\ (email = "" \/ password = "") /\ loginError' # loginError) =>
          (loginError' = MissingCredentialsMessage /\ UNCHANGED signIns)]_vars
  /\ [][SignInSettled =>
          /\ ~loginLoading'
          /\ signIns'[Len(signIns)].outcome = "rejected" =>
               (loginError' # "" /\ UNCHANGED <<location, view, currentUser>>)
          /\ location' # location => signIns'[Len(signIns)].outcome = "resolved"]_vars

\* a rejected sign-in followed by one that resolved and went to the form
C29_Witness ==
  /\ Len(signIns) = 2
  /\ signIns[1].outcome = "rejected"
  /\ signIns[2].outcome = "resolved"
  /\ signIns[2].navigated
  /\ location = "/form"
  /\ ~loginLoading

\* ------------------------------------------------------------------------
\* C30

\* the instances whose place_changed listener is live
LiveInstances == {k \in DOMAIN instances : instances[k].listening}

\* polling goes on only for the last effect run, before its cleanup and
\* within its 10 seconds
PollingStops == polling => (effectCleanup = "clearInterval" /\ pollTimeout)

\* C30: at most one Autocomplete instance has a live place_changed listener
\* at any time, a place selection invokes the onPlaceSelected callback that
\* is current, and polling stops on cleanup and after 10 seconds.
C30_OneLiveListener ==
  /\ Cardinality(LiveInstances) <= 1
  /\ \A j \in DOMAIN invoked : invoked[j].callback = invoked[j].current
  /\ PollingStops

\* what holds of the polling
C30_PollingStops == PollingStops

\* what holds when no instance was created by the interval callback
C30_OneLiveListenerWithoutPolling ==
  (\A k \in DOMAIN instances : instances[k].by = "effect") =>
    /\ Cardinality(LiveInstances) <= 1
    /\ \A j \in DOMAIN invoked : invoked[j].callback = invoked[j].current

====
